---- MODULE Spec2Model ----
(***************************************************************************)
(* A model of the SearchRuler rule evaluator (SearchRuleReconciler.Sync),  *)
(* its in-memory pools and the SearchRule reconcile loop.                  *)
(*                                                                         *)
(* Time is a natural number of clock units.  ZeroTime models the zero      *)
(* value time.Time{}; every instant the clock returns is >= 1.  One        *)
(* evaluation reads the clock twice: time.Now() when it stamps FiringTime  *)
(* or ResolvingTime, and time.Since() when it compares against the `for`   *)
(* window.  The second reading is `lat` units after the first, lat >= 0.   *)
(***************************************************************************)
EXTENDS Integers, Sequences, FiniteSets, TLC

VARIABLES
    now,              \* the wall clock
    srStore,          \* object store: the SearchRule records
    qcStore,          \* object store: the QueryConnector records
    CredentialsPool,  \* pools.CredentialsStore: key -> Credentials
    RulesPool,        \* pools.RulesStore: key -> Rule
    AlertsPool,       \* pools.AlertsStore: key -> Alert
    observed,         \* history: per rule key, the observations (firing or not) of
                      \* the evaluations since the rule's FiringTime was last stamped
    last,             \* what the last operation was given and what it reported
    secretStore,      \* object store: the Secret records
    qcGlobals,        \* the package-level variables of queryconnector_sync.go
    qcInFlight,       \* the calls of QueryConnectorReconciler.Sync that have run
                      \* their switch and not yet the rest
    queryConnectorCreds, \* the package-level variables queryConnectorCreds and
                      \* credsExists of searchrule_sync.go
    srQueue,          \* the work queue of the SearchRule controller: the keys
                      \* that wait for a reconcile
    srInFlight,       \* the reconciles of the SearchRule controller that have
                      \* started and not yet returned
    poolCalls,        \* per caller of the AlertsStore, the call it is in
    poolSettled,      \* history: per key, the effect of the write that
                      \* returned last
    evalPc,           \* the place of the evaluation that is inside the block
                      \* of Sync that marks the rule Firing
    conditions,       \* a Status.Conditions list
    SearchRulePool    \* the rule pool of CheckRule: key -> Rule

vars == <<now, srStore, qcStore, CredentialsPool, RulesPool, AlertsPool, observed, last,
          secretStore, qcGlobals, qcInFlight, queryConnectorCreds, srQueue, srInFlight,
          poolCalls, poolSettled, evalPc, conditions, SearchRulePool>>

(* What the SearchRule reconciler and the clock leave alone *)
evSide == <<queryConnectorCreds, srQueue, srInFlight, poolCalls, poolSettled,
           evalPc, conditions, SearchRulePool>>

qcSide == <<secretStore, qcGlobals, qcInFlight, evSide>>

----------------------------------------------------------------------------
(* Bounds of the model *)

MaxTime == 6

MaxLatency == 1

----------------------------------------------------------------------------
(* Constants of searchrule_sync.go *)

ruleNormalState == "Normal"

ruleFiringState == "Firing"

rulePendingFiringState == "PendingFiring"

rulePendingResolvedState == "PendingResolving"

conditionGreaterThan == "greaterThan"

conditionGreaterThanOrEqual == "greaterThanOrEqual"

conditionLessThan == "lessThan"

conditionLessThanOrEqual == "lessThanOrEqual"

conditionEqual == "equal"

kubeEventReasonAlertFiring == "AlertFiring"

ZeroTime == 0

RuleStates ==
    {ruleNormalState, ruleFiringState, rulePendingFiringState, rulePendingResolvedState}

----------------------------------------------------------------------------
(* The pools: a map from string keys to entries, guarded by a mutex *)

EmptyPool == <<>>

PoolGet(pool, key) ==
    IF key \in DOMAIN pool
    THEN [exists |-> TRUE, entry |-> pool[key]]
    ELSE [exists |-> FALSE, entry |-> "nil"]

PoolSet(pool, key, entry) ==
    [x \in (DOMAIN pool) \cup {key} |-> IF x = key THEN entry ELSE pool[x]]

PoolDelete(pool, key) ==
    [x \in (DOMAIN pool) \ {key} |-> pool[x]]

(* fmt.Sprintf("%s_%s", namespace, name) *)
PoolKey(namespace, name) == namespace \o "_" \o name

(* The goroutines that call the AlertsStore: the evaluators and a dispatcher *)
Callers == {"ev1", "ev2", "ra"}

(* The keys and the *Alert values of the calls *)
PoolKeys == {"k1", "k2"}

PoolEntries == {"a", "b"}

(* What Get returns for a key the map does not hold *)
Absent == [exists |-> FALSE, entry |-> "nil"]

(* A caller outside of every call *)
Idle == [pc |-> "idle", op |-> "", key |-> "", val |-> "", ret |-> Absent,
         held |-> {}, quiet |-> TRUE]

(* No evaluation is inside the block that marks the rule Firing *)
NoEval == [pc |-> "idle"]

(* The effect of a write that has returned; alone: no other write of the
   key was in progress while it ran *)
Settled(value, alone) == [value |-> value, alone |-> alone]

----------------------------------------------------------------------------
(* The records of the object store *)

SRs == {[Namespace |-> "ns", Name |-> "sr"]}

BaseSpec ==
    [ For               |-> "1s",
      QueryConnectorRef |-> "qc",
      Query             |-> "match_all",   \* "nil" when not set
      QueryJSON         |-> "",
      Operator          |-> conditionGreaterThan,
      Threshold         |-> "100",
      ActionRef         |-> "ra" ]

(* The SearchRule specs a user may write *)
SearchRuleSpecs ==
    {[BaseSpec EXCEPT !.For = f] : f \in {"-1s", "0s", "1s", "abc"}}
    \cup {[BaseSpec EXCEPT !.QueryConnectorRef = "missing"]}

NoObject == [exists |-> FALSE]

(* v1alpha1.SearchRule as Sync reads it: metadata and spec *)
Resource(id, obj) == [Namespace |-> id.Namespace, Name |-> id.Name, Spec |-> obj.Spec]

(* The zero value &v1alpha1.QueryConnector{} *)
ZeroCredentials == [Name |-> "", Namespace |-> ""]

ZeroQueryConnector == [Name |-> "", URL |-> "", Credentials |-> ZeroCredentials]

(* r.Get(ctx, namespacedName, obj): fills obj when the record exists and
   leaves it as it was otherwise; obj is the pointer the caller allocated *)
GetQueryConnector(store, namespace, name) ==
    LET k == <<namespace, name>> IN
    [ isNil |-> FALSE,
      obj   |-> IF k \in DOMAIN store THEN store[k] ELSE ZeroQueryConnector ]

(* reflect.ValueOf(p).IsZero() for a pointer p: true only for the nil pointer *)
ReflectIsZeroPtr(ptr) == ptr.isNil

(* The answers of the search backend to one request *)
Responses ==
    { [transport |-> FALSE, StatusCode |-> 0,   fieldExists |-> FALSE, value |-> 0,   aggs |-> "nil"],
      [transport |-> TRUE,  StatusCode |-> 500, fieldExists |-> FALSE, value |-> 0,   aggs |-> "nil"],
      [transport |-> TRUE,  StatusCode |-> 200, fieldExists |-> FALSE, value |-> 0,   aggs |-> "nil"],
      [transport |-> TRUE,  StatusCode |-> 200, fieldExists |-> TRUE,  value |-> 50,  aggs |-> "nil"],
      [transport |-> TRUE,  StatusCode |-> 200, fieldExists |-> TRUE,  value |-> 150, aggs |-> "nil"],
      [transport |-> TRUE,  StatusCode |-> 200, fieldExists |-> TRUE,  value |-> 150, aggs |-> "buckets"] }

(* httpClient.Do: a URL without a scheme fails in the transport before any
   connection is made; otherwise the backend answers *)
HttpDo(url, resp) ==
    IF url = "" THEN [resp EXCEPT !.transport = FALSE] ELSE resp

----------------------------------------------------------------------------
(* Pure helpers of Sync *)

(* time.ParseDuration on the strings the model uses; the unit is one second *)
ParseDuration(s) ==
    CASE s = "-1s" -> [ok |-> TRUE,  d |-> 0 - 1]
      [] s = "0s"  -> [ok |-> TRUE,  d |-> 0]
      [] s = "1s"  -> [ok |-> TRUE,  d |-> 1]
      [] s = "2s"  -> [ok |-> TRUE,  d |-> 2]
      [] OTHER     -> [ok |-> FALSE, d |-> 0]

(* strconv.ParseFloat on the thresholds the model uses *)
ParseFloat(s) ==
    CASE s = "50"  -> [ok |-> TRUE,  f |-> 50]
      [] s = "100" -> [ok |-> TRUE,  f |-> 100]
      [] s = "150" -> [ok |-> TRUE,  f |-> 150]
      [] OTHER     -> [ok |-> FALSE, f |-> 0]

evaluateCondition(value, operator, threshold) ==
    LET ft == ParseFloat(threshold) IN
    IF ~ft.ok THEN [ok |-> FALSE, firing |-> FALSE]
    ELSE CASE operator = conditionGreaterThan        -> [ok |-> TRUE, firing |-> value > ft.f]
           [] operator = conditionGreaterThanOrEqual -> [ok |-> TRUE, firing |-> value >= ft.f]
           [] operator = conditionLessThan           -> [ok |-> TRUE, firing |-> value < ft.f]
           [] operator = conditionLessThanOrEqual    -> [ok |-> TRUE, firing |-> value <= ft.f]
           [] operator = conditionEqual              -> [ok |-> TRUE, firing |-> value = ft.f]
           [] OTHER                                  -> [ok |-> FALSE, firing |-> FALSE]

----------------------------------------------------------------------------
(* SearchRuleReconciler.Sync *)

(* A request without basic auth, and the report's response when no request
   was made *)
NoAuth == [Username |-> "", Password |-> ""]

NoResponse ==
    [transport |-> FALSE, StatusCode |-> 0, fieldExists |-> FALSE, value |-> 0, aggs |-> "nil"]

(* The place of the response in an outcome whose request was made, until
   Sync fills it in *)
HttpCalled ==
    [transport |-> TRUE, StatusCode |-> 0, fieldExists |-> FALSE, value |-> 0, aggs |-> "nil"]

(* What one call of Sync leaves behind *)
Outcome(rules, alerts, cond, err, http, event, reached, firing, forDuration, stamped, alertSet) ==
    [ rules |-> rules, alerts |-> alerts,
      stamped |-> stamped,     \* FiringTime was written with time.Now()
      alertSet |-> alertSet,   \* AlertsPool.Set was called
      cond |-> cond,           \* the State condition it wrote, "none" when it wrote none
      err |-> err,             \* the error it returned, "nil" when it returned none
      http |-> http,           \* httpClient.Do was called
      event |-> event,         \* an AlertFiring event was created
      reached |-> reached,     \* the firing state machine ran
      firing |-> firing, forDuration |-> forDuration,
      credsKey |-> "",         \* the key looked up in the credentials pool, "" when none was
      auth |-> NoAuth,         \* the basic auth of the request, if one is made
      resp |-> IF http THEN HttpCalled ELSE NoResponse ]
                               \* what httpClient.Do returned, if it was called

Abort(rules, alerts, cond, err, http) ==
    Outcome(rules, alerts, cond, err, http, FALSE, FALSE, FALSE, 0, FALSE, FALSE)

(* A deletion that cleans the rules pool only *)
SyncDeleted_RulesOnly(rules, alerts, resource) ==
    LET key == PoolKey(resource.Namespace, resource.Name) IN
    [ rules |-> PoolDelete(rules, key), alerts |-> alerts,
      stamped |-> FALSE, alertSet |-> FALSE, cond |-> "none", err |-> "nil",
      http |-> FALSE, event |-> FALSE, reached |-> FALSE, firing |-> FALSE,
      forDuration |-> 0, credsKey |-> "", auth |-> NoAuth, resp |-> NoResponse ]

(* A deletion that builds its key as "<namespace>/<name>" *)
SyncDeleted_SlashKey(rules, alerts, resource) ==
    LET key == resource.Namespace \o "/" \o resource.Name IN
    [ rules |-> PoolDelete(rules, key), alerts |-> PoolDelete(alerts, key),
      stamped |-> FALSE, alertSet |-> FALSE, cond |-> "none", err |-> "nil",
      http |-> FALSE, event |-> FALSE, reached |-> FALSE, firing |-> FALSE,
      forDuration |-> 0, credsKey |-> "", auth |-> NoAuth, resp |-> NoResponse ]

(* eventType == watch.Deleted *)
SyncDeleted(rules, alerts, resource) ==
    LET key == PoolKey(resource.Namespace, resource.Name) IN
    Abort(PoolDelete(rules, key), PoolDelete(alerts, key), "none", "nil", FALSE)

(* A load that ignores the pool's entry and always starts from the skeleton *)
LoadRule_Fresh(rules, ruleKey, resource, value) ==
    [ SearchRule    |-> resource,
      FiringTime    |-> ZeroTime,
      State         |-> ruleNormalState,
      ResolvingTime |-> ZeroTime,
      Value         |-> value ]

(* The rule Sync works on: the pool's entry, or a skeleton when there is none,
   with the snapshot and the value brought up to date *)
LoadRule(rules, ruleKey, resource, value) ==
    LET got   == PoolGet(rules, ruleKey)
        rule0 == IF got.exists THEN got.entry
                 ELSE [ SearchRule    |-> resource,
                        FiringTime    |-> ZeroTime,
                        State         |-> ruleNormalState,
                        ResolvingTime |-> ZeroTime,
                        Value         |-> value ]
        rule1 == IF rule0.SearchRule # resource
                 THEN [rule0 EXCEPT !.SearchRule = resource] ELSE rule0
    IN [rule1 EXCEPT !.Value = value]

(* A firing step that stamps FiringTime only when coming from Normal *)
FiringStep_NoRestamp(rule, t, since, forDuration) ==
    LET r1 == IF rule.State = ruleNormalState
              THEN [rule EXCEPT !.FiringTime = t, !.State = rulePendingFiringState]
              ELSE IF rule.State = rulePendingResolvedState
              THEN [rule EXCEPT !.State = rulePendingFiringState]
              ELSE rule
        stamped == rule.State = ruleNormalState
    IN IF since - r1.FiringTime > forDuration
       THEN [rule |-> [r1 EXCEPT !.State = ruleFiringState], fire |-> TRUE, stamped |-> stamped]
       ELSE [rule |-> r1, fire |-> FALSE, stamped |-> stamped]

(* A firing step whose window comparison is not strict *)
FiringStep_NonStrict(rule, t, since, forDuration) ==
    LET r1 == IF rule.State = ruleNormalState \/ rule.State = rulePendingResolvedState
              THEN [rule EXCEPT !.FiringTime = t, !.State = rulePendingFiringState]
              ELSE rule
        stamped == rule.State = ruleNormalState \/ rule.State = rulePendingResolvedState
    IN IF since - r1.FiringTime >= forDuration
       THEN [rule |-> [r1 EXCEPT !.State = ruleFiringState], fire |-> TRUE, stamped |-> stamped]
       ELSE [rule |-> r1, fire |-> FALSE, stamped |-> stamped]

(* if firing: stamp FiringTime when coming from Normal or PendingResolving,
   then compare time.Since(FiringTime) with the `for` window *)
FiringStep(rule, t, since, forDuration) ==
    LET r1 == IF rule.State = ruleNormalState \/ rule.State = rulePendingResolvedState
              THEN [rule EXCEPT !.FiringTime = t, !.State = rulePendingFiringState]
              ELSE rule
        stamped == rule.State = ruleNormalState \/ rule.State = rulePendingResolvedState
    IN IF since - r1.FiringTime > forDuration
       THEN [rule |-> [r1 EXCEPT !.State = ruleFiringState], fire |-> TRUE, stamped |-> stamped]
       ELSE [rule |-> r1, fire |-> FALSE, stamped |-> stamped]

(* A resolution that goes back to Normal without clearing the times *)
ResolvingStep_KeepTimes(rule, t, since, forDuration, resource, value) ==
    LET r1 == IF rule.State # rulePendingResolvedState
              THEN [rule EXCEPT !.State = rulePendingResolvedState, !.ResolvingTime = t]
              ELSE rule
    IN IF since - r1.ResolvingTime > forDuration
       THEN [rule |-> [r1 EXCEPT !.State = ruleNormalState], resolved |-> TRUE]
       ELSE [rule |-> r1, resolved |-> FALSE]

(* A resolving step whose window comparison is not strict *)
ResolvingStep_NonStrict(rule, t, since, forDuration, resource, value) ==
    LET r1 == IF rule.State # rulePendingResolvedState
              THEN [rule EXCEPT !.State = rulePendingResolvedState, !.ResolvingTime = t]
              ELSE rule
    IN IF since - r1.ResolvingTime >= forDuration
       THEN [ rule |-> [ FiringTime    |-> ZeroTime,
                         State         |-> ruleNormalState,
                         ResolvingTime |-> ZeroTime,
                         SearchRule    |-> resource,
                         Value         |-> value ],
              resolved |-> TRUE ]
       ELSE [rule |-> r1, resolved |-> FALSE]

(* if !firing && rule.State != Normal: stamp ResolvingTime unless already
   PendingResolving, then compare time.Since(ResolvingTime) with the window *)
ResolvingStep(rule, t, since, forDuration, resource, value) ==
    LET r1 == IF rule.State # rulePendingResolvedState
              THEN [rule EXCEPT !.State = rulePendingResolvedState, !.ResolvingTime = t]
              ELSE rule
    IN IF since - r1.ResolvingTime > forDuration
       THEN [ rule |-> [ FiringTime    |-> ZeroTime,
                         State         |-> ruleNormalState,
                         ResolvingTime |-> ZeroTime,
                         SearchRule    |-> resource,
                         Value         |-> value ],
              resolved |-> TRUE ]
       ELSE [rule |-> r1, resolved |-> FALSE]

(* A state machine that leaves the Alert in the pool when the rule resolves *)
StateMachine_KeepAlert(rules, alerts, resource, firing, forDuration, value, aggs, t, since, evOk) ==
    LET ruleKey == PoolKey(resource.Namespace, resource.Name)
        rule    == LoadRule(rules, ruleKey, resource, value)
        fs      == FiringStep(rule, t, since, forDuration)
        rs      == ResolvingStep(rule, t, since, forDuration, resource, value)
        alert   == [ RulerActionName |-> resource.Spec.ActionRef,
                     SearchRule      |-> resource,
                     Value           |-> value,
                     Aggregations    |-> aggs ]
    IN IF firing THEN
           IF fs.fire THEN
               Outcome(PoolSet(rules, ruleKey, fs.rule), PoolSet(alerts, ruleKey, alert),
                       IF evOk THEN "AlertFiring" ELSE "none",
                       IF evOk THEN "nil" ELSE "KubeEventCreationError",
                       TRUE, evOk, TRUE, firing, forDuration, fs.stamped, TRUE)
           ELSE
               Outcome(PoolSet(rules, ruleKey, fs.rule), alerts,
                       "PendingFiring", "nil", TRUE, FALSE, TRUE, firing, forDuration,
                       fs.stamped, FALSE)
       ELSE IF rule.State # ruleNormalState THEN
           IF rs.resolved THEN
               Outcome(PoolSet(rules, ruleKey, rs.rule), alerts,
                       "Normal", "nil", TRUE, FALSE, TRUE, firing, forDuration, FALSE, FALSE)
           ELSE
               Outcome(PoolSet(rules, ruleKey, rs.rule), alerts,
                       "PendingResolving", "nil", TRUE, FALSE, TRUE, firing, forDuration,
                       FALSE, FALSE)
       ELSE
           Outcome(PoolSet(rules, ruleKey, rule), alerts,
                   "Normal", "nil", TRUE, FALSE, TRUE, firing, forDuration, FALSE, FALSE)

(* A check of the response that takes the value of a missing field, which
   gjson reads as 0 *)
ResponseCheck_NoFieldCheck(got) ==
    IF ~got.transport THEN
        [failed |-> TRUE, cond |-> "ConnectionError", err |-> "ElasticsearchQueryError"]
    ELSE IF got.StatusCode # 200 THEN
        [failed |-> TRUE, cond |-> "QueryError", err |-> "ElasticsearchQueryResponseError"]
    ELSE
        [failed |-> FALSE, cond |-> "none", err |-> "nil"]

(* Lines 182-213: the request failed in the transport, the status is not 200,
   or the body has no conditionField *)
ResponseCheck(got) ==
    IF ~got.transport THEN
        [failed |-> TRUE, cond |-> "ConnectionError", err |-> "ElasticsearchQueryError"]
    ELSE IF got.StatusCode # 200 THEN
        [failed |-> TRUE, cond |-> "QueryError", err |-> "ElasticsearchQueryResponseError"]
    ELSE IF ~got.fieldExists THEN
        [failed |-> TRUE, cond |-> "QueryError", err |-> "ConditionFieldNotFound"]
    ELSE
        [failed |-> FALSE, cond |-> "none", err |-> "nil"]

(* A check of the query fields without the test for both being set: the
   queryJSON then wins at lines 145-147 *)
QueryCheck_BothAllowed(query, queryJSON) ==
    IF query = "nil" /\ queryJSON = "" THEN "QueryNotDefined"
    ELSE "nil"

(* Lines 124-133: the error for the query fields, "nil" when exactly one of
   them is set; query is "nil" for the nil pointer *)
QueryCheck(query, queryJSON) ==
    IF query = "nil" /\ queryJSON = "" THEN "QueryNotDefined"
    ELSE IF query # "nil" /\ queryJSON # "" THEN "QueryDefinedInBoth"
    ELSE "nil"

(* A credentials test that lost the negation of IsZero *)
CredsMissing_Inverted(credentials, found) ==
    credentials = ZeroCredentials /\ ~found.exists

(* Lines 107-110: the connector declares credentials and the pool has none *)
CredsMissing(credentials, found) ==
    credentials # ZeroCredentials /\ ~found.exists

(* A state machine that creates the event before it stores the Alert, and
   returns on the event's failure *)
StateMachine_EventFirst(rules, alerts, resource, firing, forDuration, value, aggs, t, since, evOk) ==
    LET ruleKey == PoolKey(resource.Namespace, resource.Name)
        rule    == LoadRule(rules, ruleKey, resource, value)
        fs      == FiringStep(rule, t, since, forDuration)
        rs      == ResolvingStep(rule, t, since, forDuration, resource, value)
        alert   == [ RulerActionName |-> resource.Spec.ActionRef,
                     SearchRule      |-> resource,
                     Value           |-> value,
                     Aggregations    |-> aggs ]
    IN IF firing THEN
           IF fs.fire THEN
               Outcome(PoolSet(rules, ruleKey, fs.rule),
                       IF evOk THEN PoolSet(alerts, ruleKey, alert) ELSE alerts,
                       IF evOk THEN "AlertFiring" ELSE "none",
                       IF evOk THEN "nil" ELSE "KubeEventCreationError",
                       TRUE, evOk, TRUE, firing, forDuration, fs.stamped, evOk)
           ELSE
               Outcome(PoolSet(rules, ruleKey, fs.rule), alerts,
                       "PendingFiring", "nil", TRUE, FALSE, TRUE, firing, forDuration,
                       fs.stamped, FALSE)
       ELSE IF rule.State # ruleNormalState THEN
           IF rs.resolved THEN
               Outcome(PoolSet(rules, ruleKey, rs.rule), PoolDelete(alerts, ruleKey),
                       "Normal", "nil", TRUE, FALSE, TRUE, firing, forDuration, FALSE, FALSE)
           ELSE
               Outcome(PoolSet(rules, ruleKey, rs.rule), alerts,
                       "PendingResolving", "nil", TRUE, FALSE, TRUE, firing, forDuration,
                       FALSE, FALSE)
       ELSE
           Outcome(PoolSet(rules, ruleKey, rule), alerts,
                   "Normal", "nil", TRUE, FALSE, TRUE, firing, forDuration, FALSE, FALSE)

(* Lines 233-353: the rule is loaded and the state machine runs.  t is the
   clock's reading at time.Now(), since its reading at time.Since() *)
StateMachine(rules, alerts, resource, firing, forDuration, value, aggs, t, since, evOk) ==
    LET ruleKey == PoolKey(resource.Namespace, resource.Name)
        rule    == LoadRule(rules, ruleKey, resource, value)
        fs      == FiringStep(rule, t, since, forDuration)
        rs      == ResolvingStep(rule, t, since, forDuration, resource, value)
        alert   == [ RulerActionName |-> resource.Spec.ActionRef,
                     SearchRule      |-> resource,
                     Value           |-> value,
                     Aggregations    |-> aggs ]
    IN IF firing THEN
           IF fs.fire THEN
               Outcome(PoolSet(rules, ruleKey, fs.rule), PoolSet(alerts, ruleKey, alert),
                       IF evOk THEN "AlertFiring" ELSE "none",
                       IF evOk THEN "nil" ELSE "KubeEventCreationError",
                       TRUE, evOk, TRUE, firing, forDuration, fs.stamped, TRUE)
           ELSE
               Outcome(PoolSet(rules, ruleKey, fs.rule), alerts,
                       "PendingFiring", "nil", TRUE, FALSE, TRUE, firing, forDuration,
                       fs.stamped, FALSE)
       ELSE IF rule.State # ruleNormalState THEN
           IF rs.resolved THEN
               Outcome(PoolSet(rules, ruleKey, rs.rule), PoolDelete(alerts, ruleKey),
                       "Normal", "nil", TRUE, FALSE, TRUE, firing, forDuration, FALSE, FALSE)
           ELSE
               Outcome(PoolSet(rules, ruleKey, rs.rule), alerts,
                       "PendingResolving", "nil", TRUE, FALSE, TRUE, firing, forDuration,
                       FALSE, FALSE)
       ELSE
           Outcome(PoolSet(rules, ruleKey, rule), alerts,
                   "Normal", "nil", TRUE, FALSE, TRUE, firing, forDuration, FALSE, FALSE)

(* Lines 90-231, then the state machine *)
SyncModified(rules, alerts, creds, qcs, resource, resp, t, since, evOk) ==
    LET spec  == resource.Spec
        qc    == GetQueryConnector(qcs, resource.Namespace, spec.QueryConnectorRef)
        ckey  == PoolKey(resource.Namespace, qc.obj.Name)
        for   == ParseDuration(spec.For)
        got   == HttpDo(qc.obj.URL, resp)
        ev    == evaluateCondition(got.value, spec.Operator, spec.Threshold)
        found == PoolGet(creds, ckey)
        run   ==
       IF ReflectIsZeroPtr(qc) THEN
           Abort(rules, alerts, "QueryConnectorNotFound", "QueryConnectorNotFound", FALSE)
       ELSE IF CredsMissing(qc.obj.Credentials, found) THEN
           Abort(rules, alerts, "NoCredsFound", "MissingCredentials", FALSE)
       ELSE IF ~for.ok THEN
           Abort(rules, alerts, "none", "ForValueParseError", FALSE)
       ELSE IF QueryCheck(spec.Query, spec.QueryJSON) # "nil" THEN
           Abort(rules, alerts, "NoQueryFound", QueryCheck(spec.Query, spec.QueryJSON), FALSE)
       ELSE IF ResponseCheck(got).failed THEN
           Abort(rules, alerts, ResponseCheck(got).cond, ResponseCheck(got).err, TRUE)
       ELSE IF ~ev.ok THEN
           Abort(rules, alerts, "QueryError", "EvaluatingConditionError", TRUE)
       ELSE
           StateMachine(rules, alerts, resource, ev.firing, for.d,
                        got.value, got.aggs, t, since, evOk)
    IN [run EXCEPT
          !.credsKey = IF ~ReflectIsZeroPtr(qc) /\ qc.obj.Credentials # ZeroCredentials
                       THEN ckey ELSE "",
          !.auth     = IF qc.obj.Credentials.Name # "" /\ found.exists
                       THEN found.entry ELSE NoAuth,
          !.resp     = IF @ = HttpCalled THEN got ELSE NoResponse]

----------------------------------------------------------------------------
(* The state machine of the whole program *)

QueryConnectors ==
    (<<"ns", "qc">> :> [Name |-> "qc", URL |-> "http://es:9200", Credentials |-> ZeroCredentials])

(* The record of an operation: what it found and what came out *)
Report(op, id, rules, alerts, t, out) ==
    LET key == PoolKey(id.Namespace, id.Name) IN
    [ op |-> op, id |-> id, t |-> t, alertSet |-> out.alertSet,
      pre      |-> IF key \in DOMAIN rules THEN rules[key].State ELSE "absent",
      preAlert |-> key \in DOMAIN alerts,
      cond |-> out.cond, err |-> out.err, http |-> out.http, event |-> out.event,
      reached |-> out.reached, firing |-> out.firing, forDuration |-> out.forDuration,
      credsKey |-> out.credsKey, auth |-> out.auth, resp |-> out.resp ]

NoReport ==
    [ op |-> "none", id |-> [Namespace |-> "", Name |-> ""], t |-> ZeroTime, alertSet |-> FALSE,
      pre |-> "absent", preAlert |-> FALSE,
      cond |-> "none", err |-> "nil", http |-> FALSE, event |-> FALSE,
      reached |-> FALSE, firing |-> FALSE, forDuration |-> 0,
      credsKey |-> "", auth |-> NoAuth, resp |-> NoResponse ]

(* The secrets of the store, and the package variables before any call *)
NoSecrets == <<>>

NoCreds == [exists |-> FALSE, entry |-> NoAuth]

ZeroGlobals ==
    [resourceNamespace |-> "", resourceName |-> "", secretName |-> "", secretNamespace |-> ""]

Init ==
    /\ now = 1
    /\ srStore = [id \in SRs |-> NoObject]
    /\ qcStore = QueryConnectors
    /\ CredentialsPool = EmptyPool
    /\ RulesPool = EmptyPool
    /\ AlertsPool = EmptyPool
    /\ observed = [id \in SRs |-> {}]
    /\ last = NoReport
    /\ secretStore = NoSecrets
    /\ qcGlobals = ZeroGlobals
    /\ qcInFlight = {}
    /\ queryConnectorCreds = NoCreds
    /\ srQueue = {}
    /\ srInFlight = <<>>
    /\ poolCalls = [c \in Callers |-> Idle]
    /\ poolSettled = [k \in PoolKeys |-> Settled(Absent, TRUE)]
    /\ evalPc = NoEval
    /\ conditions = <<>>
    /\ SearchRulePool = EmptyPool

(* Time passes *)
Tick ==
    /\ now < MaxTime
    /\ now' = now + 1
    /\ last' = NoReport
    /\ UNCHANGED <<srStore, qcStore, CredentialsPool, RulesPool, AlertsPool, observed, qcSide>>

(* A user creates a SearchRule *)
CreateSR(id, spec) ==
    /\ ~srStore[id].exists
    /\ srStore' = [srStore EXCEPT ![id] =
                      [exists |-> TRUE, DeletionTimestamp |-> FALSE,
                       Finalizer |-> FALSE, Spec |-> spec]]
    /\ last' = NoReport
    /\ UNCHANGED <<now, qcStore, CredentialsPool, RulesPool, AlertsPool, observed, qcSide>>

(* A user changes the spec of a SearchRule *)
UpdateSR(id, spec) ==
    /\ srStore[id].exists
    /\ ~srStore[id].DeletionTimestamp
    /\ srStore[id].Spec # spec
    /\ srStore' = [srStore EXCEPT ![id].Spec = spec]
    /\ last' = NoReport
    /\ UNCHANGED <<now, qcStore, CredentialsPool, RulesPool, AlertsPool, observed, qcSide>>

(* A user deletes a SearchRule: the store keeps a record that carries a
   finalizer, marked with its deletion timestamp, until the finalizer goes *)
DeleteSR(id) ==
    /\ srStore[id].exists
    /\ ~srStore[id].DeletionTimestamp
    /\ srStore' = [srStore EXCEPT ![id] =
                      IF srStore[id].Finalizer
                      THEN [srStore[id] EXCEPT !.DeletionTimestamp = TRUE]
                      ELSE NoObject]
    /\ last' = NoReport
    /\ UNCHANGED <<now, qcStore, CredentialsPool, RulesPool, AlertsPool, observed, qcSide>>

(* SearchRuleReconciler.Reconcile, with the evaluation and the deletion done
   by Sync, one action per way through the handler *)

(* 2.1 the record does not exist *)
ReconcileNotFound(id) ==
    /\ ~srStore[id].exists
    /\ last' = Report("NotFound", id, RulesPool, AlertsPool, ZeroTime,
                      Abort(RulesPool, AlertsPool, "none", "nil", FALSE))
    /\ UNCHANGED <<now, srStore, qcStore, CredentialsPool, RulesPool, AlertsPool, observed, qcSide>>

(* 3. the record is marked to be deleted: drop the finalizer (updOk: r.Update
   succeeds, and the store then removes the record), clean the pools *)
ReconcileDeleted(id, updOk) ==
    LET obj == srStore[id] IN
    /\ obj.exists
    /\ obj.DeletionTimestamp
    /\ \E out \in {SyncDeleted(RulesPool, AlertsPool, Resource(id, obj))} :
        /\ RulesPool' = out.rules
        /\ AlertsPool' = out.alerts
        /\ last' = Report("Deleted", id, RulesPool, AlertsPool, ZeroTime, out)
    /\ observed' = [observed EXCEPT ![id] = {}]
    /\ srStore' = [srStore EXCEPT ![id] =
                      IF obj.Finalizer /\ updOk THEN NoObject ELSE obj]
    /\ UNCHANGED <<now, qcStore, CredentialsPool, qcSide>>

(* A handler that goes on to evaluate the rule when r.Update of the
   finalizer fails *)
ReconcileUpdateError_Evaluates(id) ==
    /\ srStore[id].exists
    /\ ~srStore[id].DeletionTimestamp
    /\ ~srStore[id].Finalizer
    /\ \E out \in {SyncModified(RulesPool, AlertsPool, CredentialsPool, qcStore,
                                Resource(id, srStore[id]), [transport |-> TRUE,
                                StatusCode |-> 200, fieldExists |-> TRUE, value |-> 150,
                                aggs |-> "nil"], now, now, TRUE)} :
        /\ RulesPool' = out.rules
        /\ AlertsPool' = out.alerts
        /\ last' = Report("UpdateError", id, RulesPool, AlertsPool, ZeroTime, out)
    /\ UNCHANGED <<now, srStore, qcStore, CredentialsPool, observed, qcSide>>

(* 4. the finalizer is missing and r.Update fails *)
ReconcileUpdateError(id) ==
    /\ srStore[id].exists
    /\ ~srStore[id].DeletionTimestamp
    /\ ~srStore[id].Finalizer
    /\ last' = Report("UpdateError", id, RulesPool, AlertsPool, ZeroTime,
                      Abort(RulesPool, AlertsPool, "none", "UpdateError", FALSE))
    /\ UNCHANGED <<now, srStore, qcStore, CredentialsPool, RulesPool, AlertsPool, observed, qcSide>>

(* 4.-7. the finalizer is there or is added, and the rule is evaluated.
   resp: the backend's answer; lat: the time between the evaluation's two
   readings of the clock; evOk: the AlertFiring event is created.  lat and
   evOk are enumerated only where the evaluation reads them *)
ReconcileSync(id, resp, lat, evOk) ==
    LET obj == srStore[id] IN
    /\ obj.exists
    /\ ~obj.DeletionTimestamp
    /\ now + lat <= MaxTime
    /\ \E out \in {SyncModified(RulesPool, AlertsPool, CredentialsPool, qcStore,
                                Resource(id, obj), resp, now, now + lat, evOk)} :
        /\ out.reached \/ lat = 0
        /\ evOk \/ out.err = "KubeEventCreationError"
        /\ RulesPool' = out.rules
        /\ AlertsPool' = out.alerts
        /\ last' = Report("Sync", id, RulesPool, AlertsPool, now, out)
        /\ observed' = [observed EXCEPT ![id] =
                           IF ~out.reached THEN @
                           ELSE IF out.stamped THEN {out.firing}
                           ELSE @ \cup {out.firing}]
    /\ srStore' = [srStore EXCEPT ![id].Finalizer = TRUE]
    /\ now' = now + lat
    /\ UNCHANGED <<qcStore, CredentialsPool, qcSide>>

Next ==
    \/ Tick
    \/ \E id \in SRs, spec \in SearchRuleSpecs : CreateSR(id, spec)
    \/ \E id \in SRs, spec \in SearchRuleSpecs : UpdateSR(id, spec)
    \/ \E id \in SRs : DeleteSR(id)
    \/ \E id \in SRs : ReconcileNotFound(id)
    \/ \E id \in SRs, updOk \in BOOLEAN : ReconcileDeleted(id, updOk)
    \/ \E id \in SRs : ReconcileUpdateError(id)
    \/ \E id \in SRs, resp \in Responses, lat \in 0..MaxLatency, evOk \in BOOLEAN :
           ReconcileSync(id, resp, lat, evOk)

Spec == Init /\ [][Next]_vars

----------------------------------------------------------------------------
(* One firing episode of one rule: the reconciler requeues the rule after
   every evaluation (RequeueAfter: checkInterval), so evaluations and clock
   ticks alternate; the backend answers with firing values until the rule is
   Firing and for as long as it likes after that, and once it has answered
   with a value that does not fire it keeps doing so.  The backend changes its
   answer early enough for the model's clock to cover the window after it. *)

EpisodeRule == [Namespace |-> "ns", Name |-> "sr"]

EpisodeInit ==
    /\ now = 1
    /\ \E f \in {"-1s", "0s", "1s"} :
          srStore = [id \in SRs |->
                        [exists |-> TRUE, DeletionTimestamp |-> FALSE,
                         Finalizer |-> FALSE, Spec |-> [BaseSpec EXCEPT !.For = f]]]
    /\ qcStore = QueryConnectors
    /\ CredentialsPool = EmptyPool
    /\ RulesPool = EmptyPool
    /\ AlertsPool = EmptyPool
    /\ observed = [id \in SRs |-> {}]
    /\ last = NoReport
    /\ secretStore = NoSecrets
    /\ qcGlobals = ZeroGlobals
    /\ qcInFlight = {}
    /\ queryConnectorCreds = NoCreds
    /\ srQueue = {}
    /\ srInFlight = <<>>
    /\ poolCalls = [c \in Callers |-> Idle]
    /\ poolSettled = [k \in PoolKeys |-> Settled(Absent, TRUE)]
    /\ evalPc = NoEval
    /\ conditions = <<>>
    /\ SearchRulePool = EmptyPool

(* The backend has answered with a value that does not fire *)
Resolving == FALSE \in observed[EpisodeRule]

EpisodeEval(resp, lat, evOk) ==
    LET spec      == srStore[EpisodeRule].Spec
        obsFiring == evaluateCondition(resp.value, spec.Operator, spec.Threshold).firing
        key       == PoolKey(EpisodeRule.Namespace, EpisodeRule.Name)
    IN
    /\ last.op = "none"
    /\ resp.transport /\ resp.StatusCode = 200 /\ resp.fieldExists
    /\ IF Resolving THEN ~obsFiring
       ELSE \/ obsFiring
            \/ /\ key \in DOMAIN RulesPool
               /\ RulesPool[key].State = ruleFiringState
               /\ now + ParseDuration(spec.For).d + 1 <= MaxTime
    /\ ReconcileSync(EpisodeRule, resp, lat, evOk)

EpisodeTick ==
    /\ last.op = "Sync"
    /\ now < MaxTime
    /\ now' = now + 1
    /\ last' = NoReport
    /\ UNCHANGED <<srStore, qcStore, CredentialsPool, RulesPool, AlertsPool, observed, qcSide>>

EpisodeNext ==
    \/ \E resp \in Responses, lat \in 0..MaxLatency, evOk \in BOOLEAN :
           EpisodeEval(resp, lat, evOk)
    \/ EpisodeTick

SpecEpisode == EpisodeInit /\ [][EpisodeNext]_vars /\ WF_vars(EpisodeNext)

----------------------------------------------------------------------------
(* The QueryConnector reconciler and the credentials it hands to the
   evaluator.  QueryConnectorReconciler.Sync keeps what it reads from the
   resource in package-level variables; the namespaced and the cluster-scoped
   connectors are reconciled by workers of their own, so a call may find the
   variables overwritten by another call between its switch (lines 43-64) and
   the rest (lines 66-109).  The key names of the secret are the same for
   every connector of the model and are left out of the variables. *)

ClusterQueryConnectorResourceType == "ClusterQueryConnector"

QueryConnectorResourceType == "QueryConnector"

(* The connectors: <<namespace, name>>, the namespace empty for a cluster one *)
NamespacedQC == <<"ns", "qc">>

ClusterQC == <<"", "cqc">>

CredsQueryConnectors ==
    (NamespacedQC :> [Name |-> "qc", URL |-> "http://es:9200",
                      Credentials |-> [Name |-> "s1", Namespace |-> ""],
                      DeletionTimestamp |-> FALSE])
    @@ (ClusterQC :> [Name |-> "cqc", URL |-> "http://es:9200",
                      Credentials |-> [Name |-> "s2", Namespace |-> ""],
                      DeletionTimestamp |-> FALSE])

ResourceTypeOf(q) ==
    IF q[1] = "" THEN ClusterQueryConnectorResourceType ELSE QueryConnectorResourceType

(* The secrets a user may write: v1.Secret.Data under the two keys *)
SecretKeys == {<<"ns", "s1">>, <<"default", "s2">>}

SecretData(sk) ==
    IF sk = <<"ns", "s1">>
    THEN { [username |-> "u1", password |-> "p1"],
           [username |-> "u2", password |-> "p2"],
           [username |-> "",   password |-> "p1"] }
    ELSE { [username |-> "u3", password |-> "p3"] }

(* Lines 43-64: the switch on resourceType *)
SyncSwitch(resourceType, namespace, resource) ==
    IF resourceType = ClusterQueryConnectorResourceType
    THEN [ resourceNamespace |-> "",
           resourceName      |-> resource.Name,
           secretName        |-> resource.Credentials.Name,
           secretNamespace   |-> IF resource.Credentials.Namespace = ""
                                 THEN "default" ELSE resource.Credentials.Namespace ]
    ELSE [ resourceNamespace |-> namespace,
           resourceName      |-> resource.Name,
           secretName        |-> resource.Credentials.Name,
           secretNamespace   |-> IF resource.Credentials.Namespace = ""
                                 THEN namespace ELSE resource.Credentials.Namespace ]

(* Lines 66-109, on the package variables as the call finds them *)
SyncRest(g, eventType, secrets, creds) ==
    LET key == PoolKey(g.resourceNamespace, g.resourceName)
        sk  == <<g.secretNamespace, g.secretName>>
    IN IF eventType = "Deleted" THEN
           [creds |-> PoolDelete(creds, key), key |-> key, cond |-> "none", err |-> "nil"]
       ELSE IF sk \notin DOMAIN secrets THEN
           [creds |-> creds, key |-> key, cond |-> "NoCredsFound", err |-> "SecretNotFound"]
       ELSE IF secrets[sk].username = "" \/ secrets[sk].password = "" THEN
           [creds |-> creds, key |-> key, cond |-> "NoCredsFound", err |-> "MissingCredentials"]
       ELSE
           [creds |-> PoolSet(creds, key, [Username |-> secrets[sk].username,
                                           Password |-> secrets[sk].password]),
            key |-> key, cond |-> "Success", err |-> "nil"]

srSide == <<now, srStore, RulesPool, AlertsPool, observed>>

(* A user writes or removes a secret *)
SetSecret(sk, data) ==
    /\ IF sk \in DOMAIN secretStore THEN secretStore[sk] # data ELSE TRUE
    /\ secretStore' = [x \in (DOMAIN secretStore) \cup {sk} |->
                           IF x = sk THEN data ELSE secretStore[x]]
    /\ last' = NoReport
    /\ UNCHANGED <<srSide, evSide, qcStore, CredentialsPool, qcGlobals, qcInFlight>>

DeleteSecret(sk) ==
    /\ sk \in DOMAIN secretStore
    /\ secretStore' = [x \in (DOMAIN secretStore) \ {sk} |-> secretStore[x]]
    /\ last' = NoReport
    /\ UNCHANGED <<srSide, evSide, qcStore, CredentialsPool, qcGlobals, qcInFlight>>

(* A user deletes a connector: the record stays, marked, until the reconciler
   has dropped its finalizer *)
DeleteQC(q) ==
    /\ q \in DOMAIN qcStore
    /\ ~qcStore[q].DeletionTimestamp
    /\ qcStore' = [qcStore EXCEPT ![q].DeletionTimestamp = TRUE]
    /\ last' = NoReport
    /\ UNCHANGED <<srSide, evSide, secretStore, CredentialsPool, qcGlobals, qcInFlight>>

(* The reconcilers of the two connector kinds run on workers of their own:
   a reconcile of connector q may start whenever no reconcile of q itself is
   in flight *)
QCMayStart(q) == \A c \in qcInFlight : c.qc # q

(* A reconcile of connector q enters Sync and runs the switch.  raced records
   that another call has written the package variables since this call's
   switch *)
QCSyncSwitch(q) ==
    /\ q \in DOMAIN qcStore
    /\ QCMayStart(q)
    /\ qcGlobals' = SyncSwitch(ResourceTypeOf(q), q[1], qcStore[q])
    /\ qcInFlight' = {[c EXCEPT !.raced = TRUE] : c \in qcInFlight} \cup
          {[qc |-> q,
            eventType |-> IF qcStore[q].DeletionTimestamp THEN "Deleted" ELSE "Modified",
            raced |-> FALSE]}
    /\ last' = NoReport
    /\ UNCHANGED <<srSide, evSide, qcStore, secretStore, CredentialsPool>>

(* The call goes on from the switch to the end; after a Deleted event the
   reconciler drops the finalizer and the store removes the record *)
QCSyncRest(c) ==
    /\ c \in qcInFlight
    /\ \E out \in {SyncRest(qcGlobals, c.eventType, secretStore, CredentialsPool)} :
        /\ CredentialsPool' = out.creds
        /\ last' = [op |-> "QCSync", id |-> c.qc, eventType |-> c.eventType,
                    key |-> out.key, cond |-> out.cond, err |-> out.err,
                    raced |-> c.raced]
    /\ qcInFlight' = qcInFlight \ {c}
    /\ qcStore' = IF c.eventType = "Deleted"
                  THEN [x \in (DOMAIN qcStore) \ {c.qc} |-> qcStore[x]]
                  ELSE qcStore
    /\ UNCHANGED <<srSide, evSide, secretStore, qcGlobals>>

(* The rule of the credentials specification, evaluated at a standing clock *)
CredsRule == [Namespace |-> "ns", Name |-> "sr"]

CredsInit ==
    /\ now = 1
    /\ \E ref \in {"qc", "cqc"} :
          srStore = [id \in SRs |->
                        [exists |-> TRUE, DeletionTimestamp |-> FALSE, Finalizer |-> FALSE,
                         Spec |-> [BaseSpec EXCEPT !.QueryConnectorRef = ref]]]
    /\ qcStore = CredsQueryConnectors
    /\ CredentialsPool = EmptyPool
    /\ RulesPool = EmptyPool
    /\ AlertsPool = EmptyPool
    /\ observed = [id \in SRs |-> {}]
    /\ last = NoReport
    /\ secretStore = NoSecrets
    /\ qcGlobals = ZeroGlobals
    /\ qcInFlight = {}
    /\ queryConnectorCreds = NoCreds
    /\ srQueue = {}
    /\ srInFlight = <<>>
    /\ poolCalls = [c \in Callers |-> Idle]
    /\ poolSettled = [k \in PoolKeys |-> Settled(Absent, TRUE)]
    /\ evalPc = NoEval
    /\ conditions = <<>>
    /\ SearchRulePool = EmptyPool

CredsEval(resp) ==
    /\ resp.transport /\ resp.StatusCode = 200 /\ resp.value = 150 /\ resp.aggs = "nil"
    /\ ReconcileSync(CredsRule, resp, 0, TRUE)

CredsNext ==
    \/ \E sk \in SecretKeys : \E data \in SecretData(sk) : SetSecret(sk, data)
    \/ \E sk \in SecretKeys : DeleteSecret(sk)
    \/ \E q \in {NamespacedQC, ClusterQC} : DeleteQC(q)
    \/ \E q \in {NamespacedQC, ClusterQC} : QCSyncSwitch(q)
    \/ \E c \in qcInFlight : QCSyncRest(c)
    \/ \E resp \in Responses : CredsEval(resp)

SpecCreds == CredsInit /\ [][CredsNext]_vars

----------------------------------------------------------------------------
(* The evaluator over the query fields, the operators and the thresholds a
   user may write.  The window is 0s, so that a rule observed firing is Firing
   as soon as the clock moves within the evaluation, and the pools hold a rule
   and an Alert when a later spec is rejected. *)

InputOperators ==
    { conditionGreaterThan, conditionGreaterThanOrEqual, conditionLessThan,
      conditionLessThanOrEqual, conditionEqual, "notEqual" }

InputSpecs ==
    {[BaseSpec EXCEPT !.For = "0s", !.Operator = op] : op \in InputOperators}
    \cup {[BaseSpec EXCEPT !.For = "0s", !.Threshold = "abc"]}
    \cup {[BaseSpec EXCEPT !.For = "0s", !.Query = q[1], !.QueryJSON = q[2]] :
        q \in {<<"nil", "">>, <<"match_all", "{}">>, <<"nil", "{}">>}}

InputRule == [Namespace |-> "ns", Name |-> "sr"]

InputInit ==
    /\ now = 1
    /\ \E spec \in InputSpecs :
          srStore = [id \in SRs |->
                        [exists |-> TRUE, DeletionTimestamp |-> FALSE,
                         Finalizer |-> FALSE, Spec |-> spec]]
    /\ qcStore = QueryConnectors
    /\ CredentialsPool = EmptyPool
    /\ RulesPool = EmptyPool
    /\ AlertsPool = EmptyPool
    /\ observed = [id \in SRs |-> {}]
    /\ last = NoReport
    /\ secretStore = NoSecrets
    /\ qcGlobals = ZeroGlobals
    /\ qcInFlight = {}
    /\ queryConnectorCreds = NoCreds
    /\ srQueue = {}
    /\ srInFlight = <<>>
    /\ poolCalls = [c \in Callers |-> Idle]
    /\ poolSettled = [k \in PoolKeys |-> Settled(Absent, TRUE)]
    /\ evalPc = NoEval
    /\ conditions = <<>>
    /\ SearchRulePool = EmptyPool

(* The backend's answers: the value below, at and above the threshold *)
InputResponses ==
    {[transport |-> TRUE, StatusCode |-> 200, fieldExists |-> TRUE, value |-> v, aggs |-> "nil"] :
        v \in {50, 100, 150}}

InputEval(resp, lat) == ReconcileSync(InputRule, resp, lat, TRUE)

InputNext ==
    \/ \E spec \in InputSpecs : UpdateSR(InputRule, spec)
    \/ \E resp \in InputResponses, lat \in 0..MaxLatency : InputEval(resp, lat)

SpecInputs == InputInit /\ [][InputNext]_vars

----------------------------------------------------------------------------
(* The dispatcher: RulerActionReconciler.Sync over the Alerts the evaluator
   has inserted *)

(* strings.Contains(s, sub) *)
Contains(s, sub) ==
    \E i \in 1..(Len(s) - Len(sub) + 1) : SubSeq(s, i, i + Len(sub) - 1) = sub

(* regexp.MatchString for a pattern that is a literal followed by "/*":
   the literal, then any number of slashes, anywhere in the key *)
RegexMatch(pattern, key) ==
    Contains(key, SubSeq(pattern, 1, Len(pattern) - 2))

(* AlertsStore.GetByRegex(pattern): the keys of the entries that match *)
GetByRegex(pool, pattern) == {k \in DOMAIN pool : RegexMatch(pattern, k)}

(* The action templates a rule may carry in spec.actionRef.data:
     alerts     a constant Alertmanager array, no template action in it
     templated  an array built by template actions: the text is not JSON,
                the output is an Alertmanager array
     object     a JSON object around a template action
     broken     an unterminated template action *)
ActionData == {"alerts", "templated", "object", "broken"}

TemplateText(data) == [kind |-> "template", data |-> data]

RenderedPayload(data) == [kind |-> "payload", data |-> data]

(* template.EvaluateTemplate(data, injected) *)
EvaluateTemplate(data) ==
    IF data = "broken" THEN [ok |-> FALSE, payload |-> RenderedPayload("broken")]
    ELSE [ok |-> TRUE, payload |-> RenderedPayload(data)]

(* validators.ValidateAlertmanager(text): the text is an Alertmanager v2
   array of alerts *)
ValidateAlertmanager(text) ==
    IF text.kind = "template" THEN text.data = "alerts"
    ELSE text.data \in {"alerts", "templated"}

(* validatorsMap, lines 31-33 *)
validatorsMap == {"alertmanager"}

NoWebhook == [transport |-> FALSE, StatusCode |-> 0]

(* The answers of the webhook receiver to one request *)
WebhookResponses ==
    { [transport |-> FALSE, StatusCode |-> 0],
      [transport |-> TRUE,  StatusCode |-> 200],
      [transport |-> TRUE,  StatusCode |-> 500] }

(* What a run of the dispatcher did *)
DispatchOutcome(err, batch, handled, validated, rendered, requests, webhook) ==
    [ err |-> err, batch |-> batch, handled |-> handled, validated |-> validated,
      rendered |-> rendered, requests |-> requests, webhook |-> webhook ]

(* Lines 67-130: the body of the loop for the alert under key k; every path
   through it returns from Sync *)
SyncAlert(resource, batch, alerts, k, username, password, webhook) ==
    LET alert  == alerts[k]
        data   == alert.SearchRule.Spec.ActionData
        text   == TemplateText(data)
        parsed == EvaluateTemplate(data)
        req    == [ key |-> k, payload |-> parsed.payload,
                    basicAuth |-> username = "" \/ password = "",
                    Username |-> username, Password |-> password ]
        checked == IF resource.Validator # "" THEN {<<k, text>>} ELSE {}
    IN IF resource.Validator # "" /\ resource.Validator \notin validatorsMap THEN
           DispatchOutcome("ValidatorNotFound", batch, {k}, {}, {}, {}, NoWebhook)
       ELSE IF resource.Validator # "" /\ ~ValidateAlertmanager(text) THEN
           DispatchOutcome("ValidationFailed", batch, {k}, checked, {}, {}, NoWebhook)
       ELSE IF ~parsed.ok THEN
           DispatchOutcome("EvaluateTemplateError", batch, {k}, checked, {}, {}, NoWebhook)
       ELSE IF ~webhook.transport THEN
           DispatchOutcome("HttpError", batch, {k}, checked, {k}, {req}, webhook)
       ELSE
           DispatchOutcome("nil", batch, {k}, checked, {k}, {req}, webhook)

(* Line 66: the alerts of the run *)
AlertsOf(resource, alerts) ==
    GetByRegex(alerts, resource.Namespace \o "/" \o resource.Name \o "/*")

(* Lines 37-133.  first is the entry the range statement visits first *)
RulerActionSync(resource, secrets, alerts, first, webhook) ==
    LET sk    == <<resource.Namespace, resource.Credentials.Name>>
        found == sk \in DOMAIN secrets
        username == IF resource.Credentials.Name # "" /\ found
                    THEN secrets[sk].username ELSE ""
        password == IF resource.Credentials.Name # "" /\ found
                    THEN secrets[sk].password ELSE ""
        batch == AlertsOf(resource, alerts)
    IN IF resource.Credentials.Name # "" /\ ~found THEN
           DispatchOutcome("SecretFetchError", {}, {}, {}, {}, {}, NoWebhook)
       ELSE IF resource.Credentials.Name # "" /\ (username = "" \/ password = "") THEN
           DispatchOutcome("MissingCredentials", {}, {}, {}, {}, {}, NoWebhook)
       ELSE IF batch = {} THEN
           DispatchOutcome("nil", batch, {}, {}, {}, {}, NoWebhook)
       ELSE
           SyncAlert(resource, batch, alerts, first, username, password, webhook)

(* The rules, the connectors, the secrets and the actions of this
   specification *)
DispatchSRs ==
    { [Namespace |-> "ns",  Name |-> "sr1"],
      [Namespace |-> "ns",  Name |-> "sr2"],
      [Namespace |-> "ns2", Name |-> "sr3"] }

DispatchSpec(action, data) ==
    [ For               |-> "-1s",
      QueryConnectorRef |-> "qc",
      Query             |-> "match_all",
      QueryJSON         |-> "",
      Operator          |-> conditionGreaterThan,
      Threshold         |-> "100",
      ActionRef         |-> action,
      ActionData        |-> data ]

DispatchQueryConnectors ==
    [q \in {<<"ns", "qc">>, <<"ns2", "qc">>} |->
        [Name |-> "qc", URL |-> "http://es:9200", Credentials |-> ZeroCredentials]]

DispatchSecrets ==
    [sk \in {<<"ns", "ras">>, <<"ns", "rae">>} |->
        IF sk[2] = "ras" THEN [username |-> "u1", password |-> "p1"]
        ELSE [username |-> "u1", password |-> ""]]

RulerActions ==
    { [Namespace |-> "ns", Name |-> "ra", Validator |-> v, Credentials |-> [Name |-> c]] :
        v \in {"", "alertmanager", "slack"}, c \in {""} }
    \cup
    { [Namespace |-> "ns", Name |-> "ra", Validator |-> "", Credentials |-> [Name |-> c]] :
        c \in {"ras", "rae", "missing"} }

DispatchInit ==
    /\ now = 1
    /\ \E d \in ActionData, a \in {"ra", "rb"} :
          srStore = [id \in DispatchSRs |->
                        [exists |-> TRUE, DeletionTimestamp |-> FALSE, Finalizer |-> FALSE,
                         Spec |-> IF id.Name = "sr1" THEN DispatchSpec("ra", d)
                                  ELSE IF id.Name = "sr2" THEN DispatchSpec(a, "alerts")
                                  ELSE DispatchSpec("ra", "alerts")]]
    /\ qcStore = DispatchQueryConnectors
    /\ CredentialsPool = EmptyPool
    /\ RulesPool = EmptyPool
    /\ AlertsPool = EmptyPool
    /\ observed = [id \in DispatchSRs |-> {}]
    /\ last = NoReport
    /\ secretStore = DispatchSecrets
    /\ qcGlobals = ZeroGlobals
    /\ qcInFlight = {}
    /\ queryConnectorCreds = NoCreds
    /\ srQueue = {}
    /\ srInFlight = <<>>
    /\ poolCalls = [c \in Callers |-> Idle]
    /\ poolSettled = [k \in PoolKeys |-> Settled(Absent, TRUE)]
    /\ evalPc = NoEval
    /\ conditions = <<>>
    /\ SearchRulePool = EmptyPool

(* The backend's answers: above the threshold for every rule, below it for
   the first *)
DispatchResponses(id) ==
    {[transport |-> TRUE, StatusCode |-> 200, fieldExists |-> TRUE, value |-> v, aggs |-> "nil"] :
        v \in IF id.Name = "sr1" THEN {50, 150} ELSE {150}}

(* An evaluation of one of the rules.  The window of the rules is negative,
   so a rule observed firing is Firing, and its Alert inserted, at the end of
   the same evaluation *)
DispatchEval(id, resp) == ReconcileSync(id, resp, 0, TRUE)

(* A dispatcher that drops the Alerts of its action from the pool once the
   run is over *)
Dispatch_Drain(resource, webhook) ==
    /\ \E first \in (IF AlertsOf(resource, AlertsPool) = {} THEN {""}
                     ELSE AlertsOf(resource, AlertsPool)) :
        LET out == RulerActionSync(resource, secretStore, AlertsPool, first, webhook) IN
        /\ last' = [ op |-> "Dispatch", ra |-> resource, err |-> out.err,
                     receiver |-> webhook,
                     cond |-> IF out.err = "nil" THEN "TargetSynced"
                              ELSE "KubernetesApiCallError",
                     batch |-> out.batch, handled |-> out.handled,
                     validated |-> out.validated, rendered |-> out.rendered,
                     requests |-> out.requests, webhook |-> out.webhook ]
    /\ AlertsPool' = [k \in {x \in DOMAIN AlertsPool :
                                AlertsPool[x].RulerActionName # resource.Name} |->
                         AlertsPool[k]]
    /\ UNCHANGED <<now, srStore, RulesPool, observed, qcStore, CredentialsPool, qcSide>>

(* RulerActionReconciler.Reconcile, steps 7 and 8, for the action resource:
   the run of Sync and the condition written from its error.  webhook is the
   answer the receiver gives to a request of this run *)
Dispatch(resource, webhook) ==
    /\ \E first \in (IF AlertsOf(resource, AlertsPool) = {} THEN {""}
                     ELSE AlertsOf(resource, AlertsPool)) :
        LET out == RulerActionSync(resource, secretStore, AlertsPool, first, webhook) IN
        /\ last' = [ op |-> "Dispatch", ra |-> resource, err |-> out.err,
                     receiver |-> webhook,
                     cond |-> IF out.err = "nil" THEN "TargetSynced"
                              ELSE "KubernetesApiCallError",
                     batch |-> out.batch, handled |-> out.handled,
                     validated |-> out.validated, rendered |-> out.rendered,
                     requests |-> out.requests, webhook |-> out.webhook ]
    /\ UNCHANGED <<srSide, qcStore, CredentialsPool, qcSide>>

DispatchNext ==
    \/ \E id \in DispatchSRs : \E resp \in DispatchResponses(id) : DispatchEval(id, resp)
    \/ \E resource \in RulerActions, webhook \in WebhookResponses : Dispatch(resource, webhook)
    \/ \E id \in DispatchSRs : DeleteSR(id)
    \/ \E id \in DispatchSRs : ReconcileDeleted(id, TRUE)

SpecDispatch == DispatchInit /\ [][DispatchNext]_vars

(* The dispatcher with its schedule: Reconcile asks for the next run of an
   action after its firingInterval (step 6), so runs of the dispatcher keep
   coming *)
SpecDispatchLive ==
    /\ DispatchInit
    /\ [][DispatchNext]_vars
    /\ WF_vars(\E resource \in RulerActions, webhook \in WebhookResponses :
                  Dispatch(resource, webhook))

----------------------------------------------------------------------------
(* The SearchRule controller at the grain of its work queue: the requests
   for a key, the reconciles in flight, and the package variables an
   evaluation leaves its credentials in between the lookup and the request *)

(* The controller is built without options: one reconcile at a time *)
MaxConcurrentReconciles == 1

WorkerSRs == {[Namespace |-> "ns", Name |-> "sr1"], [Namespace |-> "ns", Name |-> "sr2"]}

(* Two connectors with credentials and one without *)
WorkerQueryConnectors ==
    [q \in {<<"ns", "qc1">>, <<"ns", "qc2">>, <<"ns", "qc0">>} |->
        [ Name |-> q[2], URL |-> "http://es:9200",
          Credentials |-> IF q[2] = "qc1" THEN [Name |-> "s1", Namespace |-> ""]
                          ELSE IF q[2] = "qc2" THEN [Name |-> "s2", Namespace |-> ""]
                          ELSE ZeroCredentials ]]

(* The pool after the reconciles of the two connectors *)
WorkerCredentials ==
    [k \in {"ns_qc1", "ns_qc2"} |->
        IF k = "ns_qc1" THEN [Username |-> "u1", Password |-> "p1"]
        ELSE [Username |-> "u2", Password |-> "p2"]]

WorkerInit ==
    /\ now = 1
    /\ \E ref \in {"qc2", "qc0"} :
          srStore = [id \in WorkerSRs |->
                        [exists |-> TRUE, DeletionTimestamp |-> FALSE, Finalizer |-> FALSE,
                         Spec |-> [BaseSpec EXCEPT !.QueryConnectorRef =
                                      IF id.Name = "sr1" THEN "qc1" ELSE ref]]]
    /\ qcStore = WorkerQueryConnectors
    /\ CredentialsPool = WorkerCredentials
    /\ RulesPool = EmptyPool
    /\ AlertsPool = EmptyPool
    /\ observed = [id \in WorkerSRs |-> {}]
    /\ last = NoReport
    /\ secretStore = NoSecrets
    /\ qcGlobals = ZeroGlobals
    /\ qcInFlight = {}
    /\ queryConnectorCreds = NoCreds
    /\ srQueue = {}
    /\ srInFlight = <<>>
    /\ poolCalls = [c \in Callers |-> Idle]
    /\ poolSettled = [k \in PoolKeys |-> Settled(Absent, TRUE)]
    /\ evalPc = NoEval
    /\ conditions = <<>>
    /\ SearchRulePool = EmptyPool

(* The keys with a reconcile in flight *)
Processing == {srInFlight[i] : i \in 1..Len(srInFlight)}

(* A watch event or the RequeueAfter timer asks for a reconcile of the key.
   The queue holds a key once; a key whose reconcile is in flight is kept and
   handed out again when that reconcile has returned *)
Enqueue(id) ==
    /\ id \notin srQueue
    /\ srQueue' = srQueue \cup {id}
    /\ last' = NoReport
    /\ UNCHANGED <<srSide, qcStore, CredentialsPool, secretStore, qcGlobals, qcInFlight, poolCalls, poolSettled,
                 evalPc, conditions, SearchRulePool,
                   queryConnectorCreds, srInFlight>>

(* Lines 108-109: the lookup into the package variables *)
LookupCreds(creds, qcs, resource, held) ==
    LET qc  == GetQueryConnector(qcs, resource.Namespace, resource.Spec.QueryConnectorRef)
        got == PoolGet(creds, PoolKey(resource.Namespace, qc.obj.Name))
    IN IF qc.obj.Credentials = ZeroCredentials THEN held
       ELSE IF got.exists THEN [exists |-> TRUE, entry |-> got.entry]
       ELSE NoCreds

(* A worker that hands a key out while as many reconciles as it likes are in
   flight *)
EvalBegin_Unbounded(id) ==
    /\ id \in srQueue
    /\ id \notin Processing
    /\ srQueue' = srQueue \ {id}
    /\ srInFlight' = Append(srInFlight, id)
    /\ queryConnectorCreds' =
          LookupCreds(CredentialsPool, qcStore, Resource(id, srStore[id]), queryConnectorCreds)
    /\ last' = [NoReport EXCEPT !.op = "Begin", !.id = id]
    /\ UNCHANGED <<srSide, qcStore, CredentialsPool, secretStore, qcGlobals, qcInFlight, poolCalls, poolSettled,
                 evalPc, conditions, SearchRulePool>>

(* A worker takes the key from the queue: Reconcile starts and Sync runs up
   to the credentials lookup (lines 90-114) *)
EvalBegin(id) ==
    /\ id \in srQueue
    /\ id \notin Processing
    /\ Len(srInFlight) < MaxConcurrentReconciles
    /\ srQueue' = srQueue \ {id}
    /\ srInFlight' = Append(srInFlight, id)
    /\ queryConnectorCreds' =
          LookupCreds(CredentialsPool, qcStore, Resource(id, srStore[id]), queryConnectorCreds)
    /\ last' = [NoReport EXCEPT !.op = "Begin", !.id = id]
    /\ UNCHANGED <<srSide, qcStore, CredentialsPool, secretStore, qcGlobals, qcInFlight, poolCalls, poolSettled,
                 evalPc, conditions, SearchRulePool>>

(* Lines 176-179: the credentials the request carries *)
AttachCreds(qcs, resource, held) ==
    LET qc == GetQueryConnector(qcs, resource.Namespace, resource.Spec.QueryConnectorRef) IN
    IF qc.obj.Credentials.Name # "" /\ held.exists THEN held.entry ELSE NoAuth

(* The reconcile in flight at position i runs the rest of Sync (lines 116 to
   the end) and returns *)
EvalEnd(i, resp) ==
    /\ i \in 1..Len(srInFlight)
    /\ LET id       == srInFlight[i]
           resource == Resource(id, srStore[id])
           out      == SyncModified(RulesPool, AlertsPool, CredentialsPool, qcStore,
                                    resource, resp, now, now, TRUE)
       IN /\ RulesPool' = out.rules
          /\ AlertsPool' = out.alerts
          /\ last' = [Report("Sync", id, RulesPool, AlertsPool, now, out) EXCEPT
                         !.auth = AttachCreds(qcStore, resource, queryConnectorCreds)]
          /\ observed' = [observed EXCEPT ![id] =
                             IF ~out.reached THEN @
                             ELSE IF out.stamped THEN {out.firing}
                             ELSE @ \cup {out.firing}]
          /\ srStore' = [srStore EXCEPT ![id].Finalizer = TRUE]
    /\ srInFlight' = [j \in 1..(Len(srInFlight) - 1) |->
                         IF j < i THEN srInFlight[j] ELSE srInFlight[j + 1]]
    /\ UNCHANGED <<now, qcStore, CredentialsPool, secretStore, qcGlobals, qcInFlight, poolCalls, poolSettled,
                 evalPc, conditions, SearchRulePool,
                   queryConnectorCreds, srQueue>>

(* The backend's answers: below and above the threshold *)
WorkerResponses ==
    {[transport |-> TRUE, StatusCode |-> 200, fieldExists |-> TRUE, value |-> v, aggs |-> "nil"] :
        v \in {50, 150}}

WorkerNext ==
    \/ \E id \in WorkerSRs : Enqueue(id)
    \/ \E id \in WorkerSRs : EvalBegin(id)
    \/ \E i \in 1..Cardinality(WorkerSRs) : \E resp \in WorkerResponses : EvalEnd(i, resp)

SpecWorkers == WorkerInit /\ [][WorkerNext]_vars

----------------------------------------------------------------------------
(* What Reconcile returns, and what the controller does with it *)

(* The answer of the controller to (result, err): an error asks for a retry
   after the rate limiter's back-off, whatever the result says; without an
   error a positive RequeueAfter asks for a run after that time; anything
   else forgets the key *)
Reschedule(requeueAfter, err) ==
    IF err # "nil" THEN [how |-> "backoff", after |-> 0]
    ELSE IF requeueAfter > 0 THEN [how |-> "after", after |-> requeueAfter]
    ELSE [how |-> "none", after |-> 0]

(* The deferred r.Status().Update of step 5 assigns the named result err,
   after the return statement has set it *)
Deferred(requeueAfter, failed, statusOk) ==
    [ failed |-> failed, requeueAfter |-> requeueAfter,
      err |-> IF statusOk THEN "nil" ELSE "StatusUpdateError",
      synced |-> failed # "ParseDuration",   \* step 7 was reached: Sync ran
      statusUpdate |-> TRUE ]                \* r.Status().Update was called

(* A return before the defer statement of step 5 *)
Returned(requeueAfter, failed, err) ==
    [ failed |-> failed, requeueAfter |-> requeueAfter, err |-> err,
      synced |-> FALSE, statusUpdate |-> FALSE ]

(* SearchRuleReconciler.Reconcile.  get: the outcome of r.Get; deleting: the
   deletion timestamp is set; finalizer: the record carries the finalizer;
   updOk: r.Update succeeds; interval: spec.checkInterval; syncOk: the
   evaluation returns nil; statusOk: r.Status().Update succeeds *)
SearchRuleReconcile(get, deleting, finalizer, updOk, interval, syncOk, statusOk) ==
    LET d == ParseDuration(interval) IN
    IF get = "notFound" THEN Returned(0, "none", "nil")
    ELSE IF get = "error" THEN Returned(0, "Get", "GetError")
    ELSE IF deleting THEN
        Returned(0, IF finalizer /\ ~updOk THEN "Update" ELSE "none", "nil")
    ELSE IF ~finalizer /\ ~updOk THEN Returned(0, "Update", "UpdateError")
    ELSE IF ~d.ok THEN Deferred(0, "ParseDuration", statusOk)
    ELSE IF ~syncOk THEN Deferred(d.d, "Sync", statusOk)
    ELSE Deferred(d.d, IF statusOk THEN "none" ELSE "StatusUpdate", statusOk)

(* RulerActionReconciler.Reconcile.  event: when the action is not read, the
   outcome of reading an Event under the same name; the zero-valued action
   the handler then works on has no name, so its updates fail and its Sync
   has nothing to do *)
RulerActionReconcile(get, event, deleting, finalizer, updOk, interval, syncOk, statusOk) ==
    LET d == ParseDuration(interval) IN
    IF get # "found" /\ event = "found" THEN Returned(0, "Update", "UpdateError")
    ELSE IF get # "found" THEN Deferred(0, "StatusUpdate", FALSE)
    ELSE IF deleting THEN
        Returned(0, IF finalizer /\ ~updOk THEN "Update" ELSE "none", "nil")
    ELSE IF ~finalizer /\ ~updOk THEN Returned(0, "Update", "UpdateError")
    ELSE IF ~d.ok THEN Deferred(0, "ParseDuration", statusOk)
    ELSE IF ~syncOk THEN Deferred(d.d, "Sync", statusOk)
    ELSE Deferred(d.d, IF statusOk THEN "none" ELSE "StatusUpdate", statusOk)

(* The intervals a user may write *)
Intervals == {"1s", "2s", "0s", "abc", ""}

RequeueReport(kind, get, deleting, interval, out) ==
    [ op |-> "Reconcile", kind |-> kind, get |-> get, deleting |-> deleting,
      interval |-> interval, failed |-> out.failed, err |-> out.err,
      requeueAfter |-> out.requeueAfter,
      synced |-> out.synced, statusUpdate |-> out.statusUpdate,
      next |-> Reschedule(out.requeueAfter, out.err) ]

ReconcileSearchRule(get, deleting, finalizer, updOk, interval, syncOk, statusOk) ==
    /\ last' = RequeueReport("SearchRule", get, deleting, interval,
                  SearchRuleReconcile(get, deleting, finalizer, updOk, interval,
                                      syncOk, statusOk))
    /\ UNCHANGED <<srSide, qcStore, CredentialsPool, qcSide>>

ReconcileRulerAction(get, event, deleting, finalizer, updOk, interval, syncOk, statusOk) ==
    /\ last' = RequeueReport("RulerAction", get, deleting, interval,
                  RulerActionReconcile(get, event, deleting, finalizer, updOk, interval,
                                       syncOk, statusOk))
    /\ UNCHANGED <<srSide, qcStore, CredentialsPool, qcSide>>

RequeueNext ==
    \/ \E get \in {"found", "notFound", "error"}, interval \in Intervals,
          deleting, finalizer, updOk, syncOk, statusOk \in BOOLEAN :
          ReconcileSearchRule(get, deleting, finalizer, updOk, interval, syncOk, statusOk)
    \/ \E get \in {"found", "notFound", "error"}, event \in {"found", "notFound"},
          interval \in Intervals,
          deleting, finalizer, updOk, syncOk, statusOk \in BOOLEAN :
          ReconcileRulerAction(get, event, deleting, finalizer, updOk, interval,
                               syncOk, statusOk)

SpecRequeue == Init /\ [][RequeueNext]_vars

----------------------------------------------------------------------------
(* The AlertsStore under concurrent callers *)

(* What the calls of the AlertsStore leave alone *)
poolRest == <<now, srStore, RulesPool, observed, qcStore, CredentialsPool, secretStore,
              qcGlobals, qcInFlight, queryConnectorCreds, srQueue, srInFlight,
              evalPc, conditions, SearchRulePool>>

(* The calls a caller makes: an evaluator reads and writes, a second one
   writes, the dispatcher reads *)
PoolOps(c) ==
    IF c = "ra" THEN {"get"}
    ELSE IF c = "ev2" THEN {"set", "delete"}
    ELSE {"get", "set", "delete"}

(* The *Alert a caller stores: each evaluator its own *)
PoolEntry(c) == IF c = "ev2" THEN "b" ELSE "a"

IsWrite(call) == call.op \in {"set", "delete"}

(* The callers inside the critical section of c.mu *)
Holding(calls) == {c \in Callers : calls[c].pc \in {"locked", "mutating", "done"}}

(* The calls on a key that have started and not returned *)
Pending(calls, key) == {c \in Callers : calls[c].pc # "idle" /\ calls[c].key = key}

(* A caller enters Set, Get or Delete *)
PoolCall(c, op, key, val) ==
    /\ poolCalls[c].pc = "idle"
    /\ op \in PoolOps(c)
    /\ val = PoolEntry(c)
    /\ LET writes == {d \in Pending(poolCalls, key) : IsWrite(poolCalls[d])}
           call   == [pc |-> "called", op |-> op, key |-> key,
                      val |-> IF op = "set" THEN val ELSE "",
                      ret |-> Absent, held |-> {PoolGet(AlertsPool, key)},
                      quiet |-> writes = {}]
       IN poolCalls' = [d \in Callers |->
              IF d = c THEN call
              ELSE IF op # "get" /\ d \in Pending(poolCalls, key)
                   THEN [poolCalls[d] EXCEPT !.quiet = FALSE]
                   ELSE poolCalls[d]]
    /\ last' = NoReport
    /\ UNCHANGED <<poolRest, AlertsPool, poolSettled>>

(* c.mu.Lock / c.mu.RLock without the wait: every caller enters *)
PoolLock_Shared(c) ==
    /\ poolCalls[c].pc = "called"
    /\ poolCalls' = [poolCalls EXCEPT ![c].pc = "locked"]
    /\ last' = NoReport
    /\ UNCHANGED <<poolRest, AlertsPool, poolSettled>>

(* c.mu.Lock waits for every holder, c.mu.RLock for the writers *)
PoolLock(c) ==
    /\ poolCalls[c].pc = "called"
    /\ IF IsWrite(poolCalls[c])
       THEN Holding(poolCalls) = {}
       ELSE \A d \in Holding(poolCalls) : ~IsWrite(poolCalls[d])
    /\ poolCalls' = [poolCalls EXCEPT ![c].pc = "locked"]
    /\ last' = NoReport
    /\ UNCHANGED <<poolRest, AlertsPool, poolSettled>>

(* c.store[key] = alert and delete(c.store, key) begin: the map is being
   written *)
PoolMutate(c) ==
    /\ poolCalls[c].pc = "locked"
    /\ IsWrite(poolCalls[c])
    /\ poolCalls' = [poolCalls EXCEPT ![c].pc = "mutating"]
    /\ last' = NoReport
    /\ UNCHANGED <<poolRest, AlertsPool, poolSettled>>

(* ... and end: the map holds the new content *)
PoolFinish(c) ==
    /\ poolCalls[c].pc = "mutating"
    /\ LET call  == poolCalls[c]
           store == IF call.op = "set"
                    THEN PoolSet(AlertsPool, call.key, call.val)
                    ELSE PoolDelete(AlertsPool, call.key)
       IN /\ AlertsPool' = store
          /\ poolCalls' = [d \in Callers |->
                 IF d = c THEN [call EXCEPT !.pc = "done"]
                 ELSE IF d \in Pending(poolCalls, call.key)
                      THEN [poolCalls[d] EXCEPT
                               !.held = @ \cup {PoolGet(store, call.key)}]
                      ELSE poolCalls[d]]
    /\ last' = NoReport
    /\ UNCHANGED <<poolRest, poolSettled>>

(* alert, exists := c.store[key]; a read of a map that another goroutine is
   writing is a data race, it yields any value *)
PoolRead(c) ==
    /\ poolCalls[c].pc = "locked"
    /\ poolCalls[c].op = "get"
    /\ \E ret \in (IF \E d \in Callers : poolCalls[d].pc = "mutating"
                   THEN {Absent} \cup {[exists |-> TRUE, entry |-> v] : v \in PoolEntries}
                   ELSE {PoolGet(AlertsPool, poolCalls[c].key)}) :
          poolCalls' = [poolCalls EXCEPT ![c].pc = "done", ![c].ret = ret]
    /\ last' = NoReport
    /\ UNCHANGED <<poolRest, AlertsPool, poolSettled>>

(* The deferred c.mu.Unlock / c.mu.RUnlock and the return *)
PoolReturn(c) ==
    /\ poolCalls[c].pc = "done"
    /\ LET call == poolCalls[c] IN
       /\ poolCalls' = [poolCalls EXCEPT ![c] = Idle]
       /\ poolSettled' = IF IsWrite(call)
                         THEN [poolSettled EXCEPT ![call.key] =
                                  Settled(IF call.op = "set"
                                          THEN [exists |-> TRUE, entry |-> call.val]
                                          ELSE Absent, call.quiet)]
                         ELSE poolSettled
       /\ last' = [op |-> "PoolReturn", caller |-> c, call |-> call,
                   settled |-> poolSettled[call.key]]
    /\ UNCHANGED <<poolRest, AlertsPool>>

PoolNext ==
    \/ \E c \in Callers, op \in {"get", "set", "delete"}, key \in PoolKeys,
          val \in PoolEntries : PoolCall(c, op, key, val)
    \/ \E c \in Callers : PoolLock(c)
    \/ \E c \in Callers : PoolMutate(c)
    \/ \E c \in Callers : PoolFinish(c)
    \/ \E c \in Callers : PoolRead(c)
    \/ \E c \in Callers : PoolReturn(c)

SpecPool == Init /\ [][PoolNext]_vars

----------------------------------------------------------------------------
(* The block of Sync that marks the rule Firing, statement by statement *)

(* What the steps of the block leave alone *)
fireRest == <<qcStore, CredentialsPool, secretStore, qcGlobals, qcInFlight,
              queryConnectorCreds, srQueue, srInFlight, poolCalls, poolSettled,
              conditions, SearchRulePool>>

(* Lines 90-272: the evaluation comes to the block and stores the rule as
   Firing *)
FireRule(id, resp, lat) ==
    LET obj == srStore[id] IN
    /\ evalPc.pc = "idle"
    /\ obj.exists
    /\ ~obj.DeletionTimestamp
    /\ now + lat <= MaxTime
    /\ \E out \in {SyncModified(RulesPool, AlertsPool, CredentialsPool, qcStore,
                                Resource(id, obj), resp, now, now + lat, TRUE)} :
        /\ out.alertSet
        /\ RulesPool' = out.rules
        /\ evalPc' = [pc |-> "ruleStored", id |-> id, t |-> now, out |-> out,
                      rules |-> RulesPool, alerts |-> AlertsPool]
        /\ observed' = [observed EXCEPT ![id] =
                           IF out.stamped THEN {out.firing} ELSE @ \cup {out.firing}]
    /\ srStore' = [srStore EXCEPT ![id].Finalizer = TRUE]
    /\ now' = now + lat
    /\ last' = NoReport
    /\ UNCHANGED <<AlertsPool, fireRest>>

(* Lines 275-281: r.AlertsPool.Set *)
FireAlert ==
    /\ evalPc.pc = "ruleStored"
    /\ LET key == PoolKey(evalPc.id.Namespace, evalPc.id.Name) IN
       AlertsPool' = PoolSet(AlertsPool, key, evalPc.out.alerts[key])
    /\ evalPc' = [evalPc EXCEPT !.pc = "alertStored"]
    /\ last' = NoReport
    /\ UNCHANGED <<now, srStore, RulesPool, observed, fireRest>>

(* The event is created as soon as the rule is stored, and the Alert is
   stored after it *)
FireEvent_Early(evOk) ==
    /\ evalPc.pc = "ruleStored"
    /\ LET key == PoolKey(evalPc.id.Namespace, evalPc.id.Name) IN
       AlertsPool' = PoolSet(AlertsPool, key, evalPc.out.alerts[key])
    /\ last' = Report("Sync", evalPc.id, evalPc.rules, evalPc.alerts, evalPc.t,
                      IF evOk THEN evalPc.out
                      ELSE [evalPc.out EXCEPT !.cond = "none", !.event = FALSE,
                                              !.err = "KubeEventCreationError"])
    /\ evalPc' = NoEval
    /\ UNCHANGED <<now, srStore, RulesPool, observed, fireRest>>

(* Lines 283-302: createKubeEvent, then the condition and the return *)
FireEvent(evOk) ==
    /\ evalPc.pc = "alertStored"
    /\ last' = Report("Sync", evalPc.id, evalPc.rules, evalPc.alerts, evalPc.t,
                      IF evOk THEN evalPc.out
                      ELSE [evalPc.out EXCEPT !.cond = "none", !.event = FALSE,
                                              !.err = "KubeEventCreationError"])
    /\ evalPc' = NoEval
    /\ UNCHANGED <<now, srStore, RulesPool, AlertsPool, observed, fireRest>>

(* An evaluation that does not come to the block *)
EvalOther(id, resp, lat) ==
    /\ evalPc.pc = "idle"
    /\ ReconcileSync(id, resp, lat, TRUE)
    /\ ~last'.alertSet

(* The reconcile of a deleted record; one reconcile of a key runs at a time *)
FireDeleted(id) ==
    /\ evalPc.pc = "idle"
    /\ ReconcileDeleted(id, TRUE)

FireNext ==
    \/ Tick
    \/ \E id \in SRs, spec \in SearchRuleSpecs : CreateSR(id, spec)
    \/ \E id \in SRs : DeleteSR(id)
    \/ \E id \in SRs : FireDeleted(id)
    \/ \E id \in SRs, resp \in Responses, lat \in 0..MaxLatency : FireRule(id, resp, lat)
    \/ FireAlert
    \/ \E evOk \in BOOLEAN : FireEvent(evOk)
    \/ \E id \in SRs, resp \in Responses, lat \in 0..MaxLatency : EvalOther(id, resp, lat)

SpecFire == Init /\ [][FireNext]_vars

----------------------------------------------------------------------------
(* The conditions of a status *)

(* metav1.Condition as NewCondition builds it at instant t *)
NewCondition(condType, status, reason, message, t) ==
    [ Type |-> condType, Status |-> status, LastTransitionTime |-> t,
      Reason |-> reason, Message |-> message ]

(* The index of the first condition of the type, 0 for the nil pointer *)
getCondition(conds, condType) ==
    IF \E i \in 1..Len(conds) : conds[i].Type = condType
    THEN CHOOSE i \in 1..Len(conds) :
            /\ conds[i].Type = condType
            /\ \A j \in 1..(i - 1) : conds[j].Type # condType
    ELSE 0

(* An update that appends whatever the list holds *)
UpdateCondition_Append(conds, condition, t) ==
    Append(conds, condition)

(* UpdateCondition at instant t *)
UpdateCondition(conds, condition, t) ==
    LET currentCondition == getCondition(conds, condition.Type) IN
    IF currentCondition = 0
    THEN Append(conds, condition)
    ELSE [conds EXCEPT ![currentCondition].Status = condition.Status,
                       ![currentCondition].Reason = condition.Reason,
                       ![currentCondition].Message = condition.Message,
                       ![currentCondition].LastTransitionTime = t]

(* The conditions the reconcilers write: type, status, reason, message *)
ConditionInputs ==
    { <<"ResourceSynced", "True", "TargetSynced", "Target was successfully synced">>,
      <<"ResourceSynced", "False", "KubernetesApiCallError", "Call to Kubernetes API failed. More info in logs.">>,
      <<"State", "True", "AlertFiring", "firing">>,
      <<"State", "True", "Normal", "normal">>,
      <<"AlertResolved", "True", "AlertResolved", "resolved">> }

(* The lists a status may start with *)
ConditionLists ==
    { <<>>,
      <<NewCondition("State", "True", "Normal", "normal", 1)>>,
      <<NewCondition("ResourceSynced", "True", "TargetSynced",
                     "Target was successfully synced", 1),
        NewCondition("State", "True", "AlertFiring", "firing", 1)>> }

ConditionsInit ==
    /\ now = 1
    /\ srStore = [id \in SRs |-> NoObject]
    /\ qcStore = QueryConnectors
    /\ CredentialsPool = EmptyPool
    /\ RulesPool = EmptyPool
    /\ AlertsPool = EmptyPool
    /\ observed = [id \in SRs |-> {}]
    /\ last = NoReport
    /\ secretStore = NoSecrets
    /\ qcGlobals = ZeroGlobals
    /\ qcInFlight = {}
    /\ queryConnectorCreds = NoCreds
    /\ srQueue = {}
    /\ srInFlight = <<>>
    /\ poolCalls = [c \in Callers |-> Idle]
    /\ poolSettled = [k \in PoolKeys |-> Settled(Absent, TRUE)]
    /\ evalPc = NoEval
    /\ conditions \in ConditionLists
    /\ SearchRulePool = EmptyPool

(* A reconciler builds a condition and updates the list with it; created:
   the instant of NewCondition, not later than the update *)
ApplyCondition(in, created) ==
    /\ created <= now
    /\ now - created <= MaxLatency
    /\ conditions' = UpdateCondition(conditions,
                        NewCondition(in[1], in[2], in[3], in[4], created), now)
    /\ last' = [op |-> "UpdateCondition",
                cond |-> NewCondition(in[1], in[2], in[3], in[4], created)]
    /\ UNCHANGED <<srSide, qcStore, CredentialsPool, secretStore, qcGlobals, qcInFlight,
                   queryConnectorCreds, srQueue, srInFlight, poolCalls, poolSettled,
                   evalPc, SearchRulePool>>

ConditionsNext ==
    \/ Tick
    \/ \E in \in ConditionInputs, created \in 1..MaxTime : ApplyCondition(in, created)

SpecConditions == ConditionsInit /\ [][ConditionsNext]_vars

----------------------------------------------------------------------------
(* The state machine of CheckRule, next to the one of Sync *)

ruleHealthyState == "healthy"

checkFiringState == "firing"

checkPendingFiringState == "pending_firing"

checkPendingResolvedState == "pending_resolved"

(* fmt.Sprintf("%s/%s", namespace, name) *)
CheckRuleKey(namespace, name) == namespace \o "/" \o name

HealthyRule == [firingTime |-> ZeroTime, state |-> ruleHealthyState, resolvingTime |-> ZeroTime]

(* Lines 167-243 of CheckRule, for a `for` that parses.  t is the clock's
   reading at time.Now(), since its reading at time.Since() *)
CheckRule(pool, ruleKey, firing, forDuration, t, since) ==
    LET got  == PoolGet(pool, ruleKey)
        rule == IF got.exists THEN got.entry ELSE HealthyRule
        f1   == IF rule.state = ruleHealthyState \/ rule.state = checkPendingResolvedState
                THEN [rule EXCEPT !.firingTime = t, !.state = checkPendingFiringState]
                ELSE rule
        f2   == IF since - f1.firingTime > forDuration /\ f1.state = checkPendingFiringState
                THEN [f1 EXCEPT !.state = checkFiringState]
                ELSE f1
        r1   == IF rule.state # checkPendingResolvedState
                THEN [rule EXCEPT !.state = checkPendingResolvedState, !.resolvingTime = t]
                ELSE rule
        r2   == IF since - r1.resolvingTime > forDuration THEN HealthyRule ELSE r1
    IN IF firing THEN PoolSet(pool, ruleKey, f2)
       ELSE IF rule.state # ruleHealthyState THEN PoolSet(pool, ruleKey, r2)
       ELSE PoolSet(pool, ruleKey, rule)

TwinRule == [Namespace |-> "ns", Name |-> "sr"]

(* The windows of the comparison *)
TwinWindows == {"-1s", "0s", "1s", "2s"}

TwinInit ==
    /\ now = 1
    /\ srStore \in {[id \in SRs |-> [exists |-> TRUE, DeletionTimestamp |-> FALSE,
                                     Finalizer |-> TRUE,
                                     Spec |-> [BaseSpec EXCEPT !.For = f]]] :
                    f \in TwinWindows}
    /\ qcStore = QueryConnectors
    /\ CredentialsPool = EmptyPool
    /\ RulesPool = EmptyPool
    /\ AlertsPool = EmptyPool
    /\ observed = [id \in SRs |-> {}]
    /\ last = NoReport
    /\ secretStore = NoSecrets
    /\ qcGlobals = ZeroGlobals
    /\ qcInFlight = {}
    /\ queryConnectorCreds = NoCreds
    /\ srQueue = {}
    /\ srInFlight = <<>>
    /\ poolCalls = [c \in Callers |-> Idle]
    /\ poolSettled = [k \in PoolKeys |-> Settled(Absent, TRUE)]
    /\ evalPc = NoEval
    /\ conditions = <<>>
    /\ SearchRulePool = EmptyPool

(* One observation at one instant, given to both state machines *)
TwinEval(firing, lat, evOk) ==
    LET resource == Resource(TwinRule, srStore[TwinRule])
        for      == ParseDuration(resource.Spec.For)
        value    == IF firing THEN 150 ELSE 50
    IN
    /\ now + lat <= MaxTime
    /\ \E out \in {StateMachine(RulesPool, AlertsPool, resource, firing, for.d, value,
                                "nil", now, now + lat, evOk)} :
        /\ evOk \/ out.err = "KubeEventCreationError"
        /\ RulesPool' = out.rules
        /\ AlertsPool' = out.alerts
        /\ last' = Report("Twin", TwinRule, RulesPool, AlertsPool, now, out)
    /\ SearchRulePool' = CheckRule(SearchRulePool, CheckRuleKey(TwinRule.Namespace, TwinRule.Name),
                                   firing, for.d, now, now + lat)
    /\ now' = now + lat
    /\ UNCHANGED <<srStore, observed, qcStore, CredentialsPool, secretStore, qcGlobals,
                   qcInFlight, queryConnectorCreds, srQueue, srInFlight, poolCalls,
                   poolSettled, evalPc, conditions>>

TwinNext ==
    \/ Tick
    \/ \E firing \in BOOLEAN, lat \in 0..MaxLatency, evOk \in BOOLEAN : TwinEval(firing, lat, evOk)

SpecTwin == TwinInit /\ [][TwinNext]_vars

----------------------------------------------------------------------------
(* Vocabulary of the properties *)

KeyOf(id) == PoolKey(id.Namespace, id.Name)

HasRule(k) == k \in DOMAIN RulesPool

HasAlert(k) == k \in DOMAIN AlertsPool

StateOf(k) == IF HasRule(k) THEN RulesPool[k].State ELSE "absent"

AllKeys == (DOMAIN RulesPool) \cup (DOMAIN AlertsPool) \cup {KeyOf(id) : id \in SRs}

(* The last operation was an evaluation that ran the state machine *)
Evaluated == last.op = "Sync" /\ last.reached

----------------------------------------------------------------------------
(* C1. As stated: in every reachable state and for every key k, an Alert
   exists under k if and only if the Rule under k is in state Firing. *)
C1_AlertIffFiring ==
    \A k \in AllKeys : HasAlert(k) <=> StateOf(k) = ruleFiringState

(* C1, amended: a Rule in Firing has an Alert under its key, and an Alert
   exists only under the key of a Rule that is in Firing, PendingResolving or
   PendingFiring (the Alert stays while the rule is resolving, and through a
   re-entry into PendingFiring from there); a Normal or absent Rule has none. *)
C1_AlertWhileNotNormal ==
    \A k \in AllKeys :
        /\ StateOf(k) = ruleFiringState => HasAlert(k)
        /\ HasAlert(k) => StateOf(k) \in {ruleFiringState, rulePendingResolvedState,
                                          rulePendingFiringState}

(* C1: a rule that left Firing keeps its Alert while it is PendingResolving *)
C1_Witness ==
    /\ Evaluated
    /\ last.pre = ruleFiringState
    /\ StateOf(KeyOf(last.id)) = rulePendingResolvedState
    /\ HasAlert(KeyOf(last.id))

(* C2. In every reachable state a Rule in state Normal has FiringTime and
   ResolvingTime zero and no Alert under its key. *)
C2_NormalIsClean ==
    \A k \in DOMAIN RulesPool :
        RulesPool[k].State = ruleNormalState =>
            /\ RulesPool[k].FiringTime = ZeroTime
            /\ RulesPool[k].ResolvingTime = ZeroTime
            /\ ~HasAlert(k)

(* C2: a rule that had an Alert came back to Normal *)
C2_Witness ==
    /\ Evaluated
    /\ last.pre = rulePendingResolvedState
    /\ last.preAlert
    /\ StateOf(KeyOf(last.id)) = ruleNormalState

(* C3. Flap suppression: whenever an evaluation puts an Alert into the pool,
   every evaluation since the rule's FiringTime was last stamped observed
   firing, and strictly more than the `for` window has passed since that
   stamp; a !firing observation followed by a firing one stamps FiringTime
   anew, so observations that alternate faster than the window insert none. *)
C3_FlapSuppression ==
    (last.op = "Sync" /\ last.alertSet) =>
        /\ observed[last.id] = {TRUE}
        /\ now - RulesPool[KeyOf(last.id)].FiringTime > last.forDuration

(* C3: an Alert is inserted for a rule that flapped before (it went through
   PendingResolving and back, which left its ResolvingTime behind) *)
C3_Witness ==
    /\ Evaluated
    /\ last.alertSet
    /\ ~last.preAlert
    /\ last.pre = rulePendingFiringState
    /\ last.forDuration = 1
    /\ RulesPool[KeyOf(last.id)].ResolvingTime # ZeroTime

(* The transitions of the table, for one evaluation *)
TableStep(pre, firing, post) ==
    IF firing
    THEN \/ pre \in {"absent", ruleNormalState, rulePendingResolvedState}
            /\ post = rulePendingFiringState
         \/ pre = rulePendingFiringState
            /\ post \in {rulePendingFiringState, ruleFiringState}
         \/ pre = ruleFiringState /\ post = ruleFiringState
    ELSE \/ pre \in {"absent", ruleNormalState} /\ post = ruleNormalState
         \/ pre \in {rulePendingFiringState, ruleFiringState}
            /\ post = rulePendingResolvedState
         \/ pre = rulePendingResolvedState
            /\ post \in {rulePendingResolvedState, ruleNormalState}

(* What C4 says of an evaluation that ran the state machine *)
C4_Step ==
    LET k == KeyOf(last.id) IN
    /\ TableStep(last.pre, last.firing, StateOf(k))
    /\ (last.firing /\ last.pre \in {"absent", ruleNormalState}) =>
           /\ StateOf(k) = rulePendingFiringState
           /\ RulesPool[k].FiringTime = last.t
           /\ ~last.alertSet
           /\ ~HasAlert(k)

(* C4. As stated: every evaluation that reaches the state machine makes at
   most one transition of the table, and for every parseable `for` (zero and
   negative included) a rule found Normal or absent and observed firing ends
   PendingFiring with FiringTime = now and no Alert inserted. *)
C4_OneTableStep == Evaluated => C4_Step

(* C4, amended: the same, for every evaluation whose `for` window is not
   shorter than the time the evaluation itself takes between reading
   time.Now() and time.Since(); when the window is shorter than that (any
   negative `for`, and a zero `for` as soon as the clock moves between the two
   readings) the evaluation makes two transitions at once: a rule found
   Normal, absent or PendingResolving and observed firing ends Firing with its
   Alert inserted, and a rule found PendingFiring or Firing and observed
   !firing ends Normal with its Alert removed. *)
C4_OneTableStepWithinWindow ==
    LET k == KeyOf(last.id) IN
    /\ (Evaluated /\ now - last.t <= last.forDuration) => C4_Step
    /\ (Evaluated /\ now - last.t > last.forDuration) =>
           /\ last.firing => (StateOf(k) = ruleFiringState /\ last.alertSet /\ HasAlert(k))
           /\ ~last.firing => (StateOf(k) = ruleNormalState /\ ~HasAlert(k))

(* C4: a Normal rule is observed firing under a positive window that the
   evaluation's own latency just fills *)
C4_Witness ==
    /\ Evaluated
    /\ last.firing
    /\ last.pre = ruleNormalState
    /\ last.forDuration = 1
    /\ now - last.t = 1
    /\ StateOf(KeyOf(last.id)) = rulePendingFiringState

(* C5. The window comparison is strict: a PendingFiring rule observed firing
   when exactly forDur has passed since FiringTime stays PendingFiring and no
   Alert is inserted; a PendingResolving rule observed !firing when exactly
   forDur has passed since ResolvingTime stays PendingResolving and its Alert
   is not removed; when more than forDur has passed the rule moves on. *)
C5_StrictWindow ==
    [][ (last'.op = "Sync" /\ last'.reached) =>
          LET k == KeyOf(last'.id) IN
          /\ (StateOf(k) = rulePendingFiringState /\ last'.firing) =>
                IF now' - RulesPool[k].FiringTime > last'.forDuration
                THEN RulesPool'[k].State = ruleFiringState /\ k \in DOMAIN AlertsPool'
                ELSE RulesPool'[k].State = rulePendingFiringState
                     /\ ~last'.alertSet /\ AlertsPool' = AlertsPool
          /\ (StateOf(k) = rulePendingResolvedState /\ ~last'.firing) =>
                IF now' - RulesPool[k].ResolvingTime > last'.forDuration
                THEN RulesPool'[k].State = ruleNormalState /\ k \notin DOMAIN AlertsPool'
                ELSE RulesPool'[k].State = rulePendingResolvedState
                     /\ AlertsPool' = AlertsPool
      ]_vars

(* C5: a PendingFiring rule is observed firing exactly one window after its
   FiringTime *)
C5_Witness ==
    /\ Evaluated
    /\ last.firing
    /\ last.pre = rulePendingFiringState
    /\ last.forDuration = 1
    /\ now - RulesPool[KeyOf(last.id)].FiringTime = 1
    /\ StateOf(KeyOf(last.id)) = rulePendingFiringState

(* C7. As stated: an AlertFiring event is emitted only by an evaluation that
   takes the rule into Firing; an evaluation that finds the rule already
   Firing and observes firing again emits none. *)
C7_EventOnlyOnTransition ==
    (last.op = "Sync" /\ last.event) =>
        /\ last.pre # ruleFiringState
        /\ StateOf(KeyOf(last.id)) = ruleFiringState

(* C9. After the reconciler has processed the deletion of a SearchRule,
   neither RulesPool nor AlertsPool holds an entry under its key
   <namespace>_<name>, whatever state the rule was in; and no entry exists
   under the key of a SearchRule that is gone from the store. *)
C9_DeletedLeavesNoEntry ==
    \A id \in SRs :
        ((last.op = "Deleted" /\ last.id = id) \/ ~srStore[id].exists) =>
            /\ id.Namespace \o "_" \o id.Name \notin DOMAIN RulesPool
            /\ id.Namespace \o "_" \o id.Name \notin DOMAIN AlertsPool

(* C9: the deletion of a rule that was Firing with a live Alert is processed *)
C9_Witness ==
    /\ last.op = "Deleted"
    /\ last.pre = ruleFiringState
    /\ last.preAlert
    /\ ~srStore[last.id].exists

(* The QueryConnector a SearchRule refers to is not in the store *)
QueryConnectorMissing(id) ==
    <<id.Namespace, srStore[id].Spec.QueryConnectorRef>> \notin DOMAIN qcStore

(* C10. As stated: an evaluation of a SearchRule whose QueryConnector does not
   exist reports QueryConnectorNotFound and stops there: no request to the
   backend is made and the state machine does not run. *)
C10_QueryConnectorNotFound ==
    (last.op = "Sync" /\ QueryConnectorMissing(last.id)) =>
        /\ last.cond = "QueryConnectorNotFound"
        /\ ~last.http
        /\ ~last.reached

(* The episode's rule in the pools, and the steps the episode claims speak of *)
EpisodeKey == KeyOf(EpisodeRule)

FiringEvaluation == last.op = "Sync" /\ last.reached /\ last.firing

C6_FiringStep ==
    FiringEvaluation' /\ ~Resolving' =>
        /\ RulesPool'[EpisodeKey].FiringTime = 1
        /\ IF StateOf(EpisodeKey) = ruleFiringState
              \/ now' - RulesPool'[EpisodeKey].FiringTime > last'.forDuration
           THEN StateOf(EpisodeKey)' = ruleFiringState /\ HasAlert(EpisodeKey)'
           ELSE StateOf(EpisodeKey)' = rulePendingFiringState /\ ~HasAlert(EpisodeKey)'
        /\ (~HasAlert(EpisodeKey) /\ HasAlert(EpisodeKey)'
               => StateOf(EpisodeKey) # ruleFiringState)
        /\ (HasAlert(EpisodeKey) => HasAlert(EpisodeKey)')

(* C6. Sustained firing.  While every observation fires, counted from the
   instant of the first one (the rule's FiringTime, the clock's first
   reading): the rule reaches Firing, and it does so at the first evaluation
   whose elapsed time since then is strictly more than the for window and at
   no earlier one; once Firing it stays Firing at every later firing
   evaluation; and the Alert enters the pool only in the evaluation that
   takes the rule into Firing and does not leave it, so it is inserted once. *)
C6_SustainedFiring ==
    /\ [][C6_FiringStep]_vars
    /\ <>(StateOf(EpisodeKey) = ruleFiringState /\ HasAlert(EpisodeKey) /\ ~Resolving)

C6_Witness ==
    /\ FiringEvaluation /\ ~Resolving
    /\ last.pre = ruleFiringState
    /\ StateOf(EpisodeKey) = ruleFiringState
    /\ HasAlert(EpisodeKey)
    /\ last.forDuration = 1

(* The rule is back to Normal, its Alert gone and its times cleared *)
Resolved ==
    /\ StateOf(EpisodeKey) = ruleNormalState
    /\ ~HasAlert(EpisodeKey)
    /\ RulesPool[EpisodeKey].FiringTime = ZeroTime
    /\ RulesPool[EpisodeKey].ResolvingTime = ZeroTime
    /\ last.op = "Sync" => last.cond = "Normal"

C8_ResolvingStep ==
    (last.op = "Sync" /\ last.reached /\ ~last.firing)'
      /\ StateOf(EpisodeKey) \in {ruleFiringState, rulePendingResolvedState} =>
        LET stamp == IF StateOf(EpisodeKey) = ruleFiringState
                     THEN last'.t ELSE RulesPool[EpisodeKey].ResolvingTime
        IN IF now' - stamp > last'.forDuration
           THEN Resolved'
           ELSE /\ StateOf(EpisodeKey)' = rulePendingResolvedState
                /\ RulesPool'[EpisodeKey].ResolvingTime = stamp
                /\ HasAlert(EpisodeKey)'
                /\ last'.cond = "PendingResolving"

(* C8. Resolution.  Once the observations stop firing for a rule that is
   Firing, the evaluation stamps ResolvingTime with its clock reading and the
   rule is PendingResolving, the Alert still in the pool, until the first
   evaluation whose elapsed time since ResolvingTime is strictly more than
   the for window; that evaluation takes the rule to Normal, removes the
   Alert, zeroes both time fields and reports Normal; and this evaluation
   does come. *)
C8_Resolution ==
    /\ [][C8_ResolvingStep]_vars
    /\ (Resolving ~> Resolved)

C8_Witness ==
    /\ last.op = "Sync" /\ last.reached /\ ~last.firing
    /\ last.pre = rulePendingResolvedState
    /\ last.preAlert
    /\ last.forDuration = 1
    /\ Resolved

(* The namespaced connector a rule names exists and declares credentials *)
DeclaresCredentials(id) ==
    LET k == <<id.Namespace, srStore[id].Spec.QueryConnectorRef>> IN
    /\ k \in DOMAIN qcStore
    /\ qcStore[k].Credentials # ZeroCredentials

(* The key <srNamespace>_<qcName> of a rule's connector *)
LookupKey(id) == id.Namespace \o "_" \o srStore[id].Spec.QueryConnectorRef

C11_EvaluationStep ==
    (last.op = "Sync" /\ DeclaresCredentials(last.id))' =>
        IF LookupKey(last'.id) \in DOMAIN CredentialsPool
        THEN last'.http => last'.auth = CredentialsPool[LookupKey(last'.id)]
        ELSE /\ last'.cond = "NoCredsFound"
             /\ ~last'.http
             /\ RulesPool' = RulesPool
             /\ AlertsPool' = AlertsPool

(* C11. Credential coupling: an evaluation of a rule whose connector declares
   credentials, made while the credentials pool has no entry under the
   connector's key, reports NoCredsFound, makes no request to the backend and
   leaves RulesPool and AlertsPool as they were; a request for such a rule is
   made only with the entry found in the pool. *)
C11_CredentialCoupling == [][C11_EvaluationStep]_vars

(* C11: the secret is in the store but the reconciler has not put it in the
   pool yet, and the evaluation stops at NoCredsFound *)
C11_Witness ==
    /\ last.op = "Sync"
    /\ DeclaresCredentials(last.id)
    /\ LookupKey(last.id) \notin DOMAIN CredentialsPool
    /\ <<"ns", "s1">> \in DOMAIN secretStore
    /\ last.cond = "NoCredsFound"
    /\ RulesPool = EmptyPool

(* C12. As stated: an evaluation looks the credentials up under
   <srNamespace>_<qcName> when the rule's connector is namespaced and under
   _<qcName> when it is cluster-scoped, and a successful reconcile of a
   connector stores its credentials under that same key. *)
C12_LookupKeyIsStoredKey ==
    /\ last.op = "Sync" =>
          LET ref == srStore[last.id].Spec.QueryConnectorRef IN
          /\ (<<last.id.Namespace, ref>> \in DOMAIN qcStore
                /\ qcStore[<<last.id.Namespace, ref>>].Credentials # ZeroCredentials)
                => last.credsKey = last.id.Namespace \o "_" \o ref
          /\ (<<"", ref>> \in DOMAIN qcStore
                /\ qcStore[<<"", ref>>].Credentials # ZeroCredentials)
                => last.credsKey = "_" \o ref
    /\ (last.op = "QCSync" /\ last.cond = "Success") =>
          last.key = last.id[1] \o "_" \o last.id[2]

(* The credentials a connector's secret holds now; not usable when the secret
   is gone or one of the two values is empty *)
SecretOf(q) ==
    LET g  == SyncSwitch(ResourceTypeOf(q), q[1], CredsQueryConnectors[q])
        sk == <<g.secretNamespace, g.secretName>>
    IN IF sk \in DOMAIN secretStore
          /\ secretStore[sk].username # "" /\ secretStore[sk].password # ""
       THEN [usable |-> TRUE,
             creds |-> [Username |-> secretStore[sk].username,
                        Password |-> secretStore[sk].password]]
       ELSE [usable |-> FALSE, creds |-> [Username |-> "", Password |-> ""]]

(* C13. As stated: when the reconciler has processed a create or update event
   of a connector (no other call touching the package variables meanwhile),
   the pool's entry under the connector's key holds the secret's current
   username and password, or there is no entry when the secret is gone or
   emptied; when it has processed a delete event there is no entry. *)
C13_PoolReflectsSecret ==
    (last.op = "QCSync" /\ ~last.raced) =>
        LET key == last.id[1] \o "_" \o last.id[2] IN
        IF last.eventType = "Deleted" \/ ~SecretOf(last.id).usable
        THEN key \notin DOMAIN CredentialsPool
        ELSE /\ key \in DOMAIN CredentialsPool
             /\ CredentialsPool[key] = SecretOf(last.id).creds

(* The request of an evaluation failed: in the transport, with a status other
   than 200, or with a body that lacks the conditionField *)
FailedResponse(r) == ~r.transport \/ r.StatusCode # 200 \/ ~r.fieldExists

C14_FailedStep ==
    (last.op = "Sync" /\ last.http /\ FailedResponse(last.resp))' =>
        /\ RulesPool' = RulesPool
        /\ AlertsPool' = AlertsPool
        /\ ~last'.reached
        /\ last'.cond = IF ~last'.resp.transport THEN "ConnectionError" ELSE "QueryError"

(* C14. An evaluation whose request fails in the transport, comes back with
   a status other than 200 or with a body without the conditionField writes
   ConnectionError (transport) or QueryError (the other two) and leaves
   RulesPool and AlertsPool exactly as they were: the rule keeps its state
   and its times. *)
C14_FailedRequestKeepsState == [][C14_FailedStep]_vars

(* C14: a Firing rule whose request came back without the conditionField is
   still Firing with its Alert *)
C14_Witness ==
    /\ last.op = "Sync" /\ last.http
    /\ last.resp.transport /\ last.resp.StatusCode = 200 /\ ~last.resp.fieldExists
    /\ last.pre = ruleFiringState
    /\ StateOf(KeyOf(last.id)) = ruleFiringState
    /\ HasAlert(KeyOf(last.id))
    /\ last.cond = "QueryError"

C15_QueryStep ==
    (last.op = "Sync")' =>
        LET spec    == srStore'[last'.id].Spec
            query   == spec.Query # "nil"
            json    == spec.QueryJSON # ""
            aborted == /\ ~last'.http
                       /\ ~last'.reached
                       /\ last'.cond = "NoQueryFound"
                       /\ RulesPool' = RulesPool
                       /\ AlertsPool' = AlertsPool
        IN /\ (query /\ json)   => (last'.err = "QueryDefinedInBoth" /\ aborted)
           /\ (~query /\ ~json) => (last'.err = "QueryNotDefined" /\ aborted)
           /\ (query # json)    => (last'.http
                                    /\ last'.err \notin {"QueryDefinedInBoth", "QueryNotDefined"})

(* C15. Exactly one of query and queryJSON must be set: an evaluation of a
   rule with both set returns the error QueryDefinedInBoth, one of a rule
   with neither set returns QueryNotDefined; both write the NoQueryFound
   condition, make no request to the backend and leave RulesPool and
   AlertsPool as they were; with exactly one set the request is made. *)
C15_ExactlyOneQuery == [][C15_QueryStep]_vars

(* C15: a rule that is Firing with its Alert gets both fields set and is
   evaluated *)
C15_Witness ==
    /\ last.op = "Sync"
    /\ last.err = "QueryDefinedInBoth"
    /\ last.pre = ruleFiringState
    /\ StateOf(KeyOf(last.id)) = ruleFiringState
    /\ HasAlert(KeyOf(last.id))

(* What the operators of the table say of a value and a threshold *)
OperatorTable(value, operator, threshold) ==
    CASE operator = "greaterThan"        -> value > threshold
      [] operator = "greaterThanOrEqual" -> value >= threshold
      [] operator = "lessThan"           -> value < threshold
      [] operator = "lessThanOrEqual"    -> value <= threshold
      [] operator = "equal"              -> value = threshold

KnownOperators ==
    {"greaterThan", "greaterThanOrEqual", "lessThan", "lessThanOrEqual", "equal"}

C16_EvaluateStep ==
    (last.op = "Sync" /\ last.http /\ ~FailedResponse(last.resp))' =>
        LET spec == srStore'[last'.id].Spec
            th   == ParseFloat(spec.Threshold)
        IN IF th.ok /\ spec.Operator \in KnownOperators
           THEN /\ last'.reached
                /\ last'.firing = OperatorTable(last'.resp.value, spec.Operator, th.f)
           ELSE /\ last'.cond = "EvaluateError"
                /\ ~last'.reached
                /\ RulesPool' = RulesPool
                /\ AlertsPool' = AlertsPool

(* C16. As stated: firing is value > threshold, >=, <, <= or == for
   greaterThan, greaterThanOrEqual, lessThan, lessThanOrEqual and equal; an
   unknown operator or a threshold that does not parse writes the condition
   EvaluateError and leaves RulesPool and AlertsPool as they were. *)
C16_OperatorsAndEvaluateError == [][C16_EvaluateStep]_vars

----------------------------------------------------------------------------
(* Vocabulary of the dispatcher's properties *)

(* The last operation was a run of the dispatcher that got to its lookup *)
Dispatched ==
    /\ last.op = "Dispatch"
    /\ last.err \notin {"SecretFetchError", "MissingCredentials"}

(* The Alerts that target the action: inserted for a rule of the action's
   namespace that references the action by name *)
Targeting(resource) ==
    { k \in DOMAIN AlertsPool :
        /\ AlertsPool[k].RulerActionName = resource.Name
        /\ AlertsPool[k].SearchRule.Namespace = resource.Namespace }

(* The Alerts a webhook request was issued for *)
Requested == {r.key : r \in last.requests}

(* The Alert renders, and its output passes the action's validator *)
Deliverable(resource, k) ==
    LET parsed == EvaluateTemplate(AlertsPool[k].SearchRule.Spec.ActionData) IN
    /\ parsed.ok
    /\ resource.Validator # "" => ValidateAlertmanager(parsed.payload)

(* C17: a run for an action that two or more Alerts target, and that reports
   no failure, has issued one webhook request for each of them *)
C17_EveryAlertDelivered ==
    (/\ Dispatched
     /\ last.err = "nil"
     /\ Cardinality(Targeting(last.ra)) >= 2)
    => /\ Cardinality(last.requests) = Cardinality(Targeting(last.ra))
       /\ Requested = Targeting(last.ra)

(* C18: the Alerts a run for the action (ns, name) processes are exactly the
   entries of AlertsPool whose actionRef is name and whose rule is in ns,
   the ones the evaluator inserted under srNamespace_srName included *)
C18_BatchIsTargetSet ==
    Dispatched => last.batch = Targeting(last.ra)

(* C19: when an Alert of the batch fails to render or is rejected by the
   validator, the other Alerts that target the action are still rendered and
   delivered in the same run *)
C19_FailureAbortsOneAlert ==
    (/\ Dispatched
     /\ last.ra.Validator \in {""} \cup validatorsMap
     /\ \E bad \in Targeting(last.ra) : ~Deliverable(last.ra, bad))
    => \A k \in Targeting(last.ra) :
          Deliverable(last.ra, k) => k \in last.rendered /\ k \in Requested

(* C20: a run for an action with a validator applies the validator to the
   rendered payload of each Alert that targets the action and renders; an
   Alert whose payload is rejected gets no webhook request and stays in
   AlertsPool *)
C20_ValidatorOnRenderedPayload ==
    (Dispatched /\ last.ra.Validator \in validatorsMap)
    => \A k \in Targeting(last.ra) :
          LET parsed == EvaluateTemplate(AlertsPool[k].SearchRule.Spec.ActionData) IN
          parsed.ok =>
              /\ <<k, parsed.payload>> \in last.validated
              /\ ~ValidateAlertmanager(parsed.payload) =>
                    k \notin Requested /\ k \in DOMAIN AlertsPool

----------------------------------------------------------------------------
(* C30: an evaluation that finds the rule PendingResolving and observes
   firing leaves it PendingFiring with firingTime = now and resolvingTime
   zero; in every state resolvingTime is non-zero only for a rule that is
   PendingResolving *)
C30_ResolvingTimeCleared ==
    /\ \A k \in DOMAIN RulesPool :
          RulesPool[k].ResolvingTime # ZeroTime
              => RulesPool[k].State = rulePendingResolvedState
    /\ (Evaluated /\ last.pre = rulePendingResolvedState /\ last.firing)
          => LET rule == RulesPool[KeyOf(last.id)] IN
             /\ rule.State = rulePendingFiringState
             /\ rule.FiringTime = last.t
             /\ rule.ResolvingTime = ZeroTime

----------------------------------------------------------------------------
(* The receiver does not take the request: no answer, or an answer that is
   not 2xx *)
ReceiverFails(webhook) ==
    ~webhook.transport \/ webhook.StatusCode \notin 200..299

(* C21: a run for an action that a deliverable Alert targets, while the
   receiver fails, is reported as a failure: Sync returns an error, the
   condition is not the one of a successful sync, and the Alert stays in
   AlertsPool *)
C21_FailedDeliveryIsFailure ==
    (/\ Dispatched
     /\ ReceiverFails(last.receiver)
     /\ \E k \in Targeting(last.ra) : Deliverable(last.ra, k))
    => /\ last.err # "nil"
       /\ last.cond # "TargetSynced"

(* C22: a run of the dispatcher leaves AlertsPool as it was; an Alert leaves
   the pool only in an evaluation of its rule that ends Normal or in the
   reconcile of its deleted rule *)
C22_Step ==
    /\ last'.op = "Dispatch" => AlertsPool' = AlertsPool
    /\ \A k \in DOMAIN AlertsPool :
          k \notin DOMAIN AlertsPool'
              => /\ KeyOf(last'.id) = k
                 /\ \/ last'.op = "Sync" /\ last'.cond = "Normal"
                    \/ last'.op = "Deleted"
    /\ \A k \in DOMAIN AlertsPool' :
          (k \notin DOMAIN AlertsPool \/ AlertsPool'[k] # AlertsPool[k])
              => last'.op = "Sync" /\ KeyOf(last'.id) = k

C22_DispatcherOnlyReads == [][C22_Step]_vars

(* A run of the dispatcher for an action with a targeting Alert in the pool,
   after which the Alert is still there *)
C22_Witness ==
    /\ last.op = "Dispatch"
    /\ last.err = "nil"
    /\ Targeting(last.ra) # {}

(* C29: the request of a run carries basic authentication exactly when the
   action declares credentials whose username and password are both
   non-empty: a run for an action with such credentials sends the request of
   a deliverable targeting Alert with them, and a run for an action without
   credentials sends no request with an Authorization header *)
C29_BasicAuthWhenConfigured ==
    Dispatched =>
        /\ \A r \in last.requests :
              r.basicAuth <=> (last.ra.Credentials.Name # ""
                               /\ r.Username # "" /\ r.Password # "")
        /\ (last.ra.Credentials.Name # "" /\ last.ra.Validator = "")
              => \A k \in Targeting(last.ra) :
                    Deliverable(last.ra, k)
                        => \E r \in last.requests :
                              /\ r.key = k
                              /\ r.basicAuth
                              /\ r.Username = secretStore[<<last.ra.Namespace, last.ra.Credentials.Name>>].username

----------------------------------------------------------------------------
(* An evaluation of rule id has just ended with the AlertFiring event
   created, its Alert in the pool for action (namespace, name) *)
AlertFiringEmitted(id, namespace, name) ==
    /\ last.op = "Sync"
    /\ last.id = id
    /\ last.event
    /\ id.Namespace = namespace
    /\ KeyOf(id) \in DOMAIN AlertsPool
    /\ AlertsPool[KeyOf(id)].RulerActionName = name

(* A run of the dispatcher for action (namespace, name) that has the Alert
   of rule id in its batch *)
AlertObserved(id, namespace, name) ==
    /\ last.op = "Dispatch"
    /\ last.ra.Namespace = namespace
    /\ last.ra.Name = name
    /\ KeyOf(id) \in last.batch

(* C24: the AlertFiring event of a rule leads to a run of the dispatcher for
   the action the rule references, and that run observes the Alert of the
   rule (unless the Alert has left the pool by then) *)
C24_EventLeadsToDispatch ==
    \A id \in DispatchSRs : \A resource \in RulerActions :
        AlertFiringEmitted(id, resource.Namespace, resource.Name)
            ~> \/ AlertObserved(id, resource.Namespace, resource.Name)
               \/ KeyOf(id) \notin DOMAIN AlertsPool

----------------------------------------------------------------------------
(* C27: a sync of a connector, whatever other sync runs meanwhile, writes or
   deletes the CredentialsPool entry under the connector's own
   <namespace>_<name> key, and what it stores there is the username and the
   password of the secret the connector's own record names *)
C27_SyncsDoNotInterfere ==
    last.op = "QCSync" =>
        /\ last.key = PoolKey(last.id[1], last.id[2])
        /\ last.cond = "Success" =>
              /\ SecretOf(last.id).usable
              /\ last.key \in DOMAIN CredentialsPool
              /\ CredentialsPool[last.key] = SecretOf(last.id).creds
        /\ last.eventType = "Deleted" => last.key \notin DOMAIN CredentialsPool

----------------------------------------------------------------------------
(* C25: at most one reconcile of a key is in flight, and a request for a key
   whose reconcile is in flight is dropped: no step puts a key on the queue
   while its reconcile is in flight *)
C25_Step ==
    /\ \A i, j \in 1..Len(srInFlight') : srInFlight'[i] = srInFlight'[j] => i = j
    /\ \A id \in Processing : id \in srQueue' => id \in srQueue

C25_OneInFlightOthersSkipped == [][C25_Step]_vars

(* The credentials the pool holds for the connector of rule id *)
OwnCreds(id) ==
    LET qc  == GetQueryConnector(qcStore, id.Namespace, srStore[id].Spec.QueryConnectorRef)
        got == PoolGet(CredentialsPool, PoolKey(id.Namespace, qc.obj.Name))
    IN IF qc.obj.Credentials.Name # "" /\ got.exists THEN got.entry ELSE NoAuth

(* C28: the request of an evaluation carries the credentials the pool holds
   for the connector of the evaluated rule, and none when that connector
   declares none *)
C28_OwnCredentials ==
    (last.op = "Sync" /\ last.http) => last.auth = OwnCreds(last.id)

(* An evaluation of the second rule has sent its request after an evaluation
   of the first rule left the first connector's credentials in the package
   variables, while the first rule waits in the queue again *)
C28_Witness ==
    /\ last.op = "Sync"
    /\ last.http
    /\ last.id.Name = "sr2"
    /\ last.auth = OwnCreds(last.id)
    /\ OwnCreds(last.id) # OwnCreds([Namespace |-> "ns", Name |-> "sr1"])
    /\ [Namespace |-> "ns", Name |-> "sr1"] \in srQueue
    /\ RulesPool # EmptyPool /\ "ns_sr1" \in DOMAIN RulesPool

----------------------------------------------------------------------------
(* C23: a reconcile of a record that is there, in which a step failed, is
   run again: after the record's interval when the interval parses, after
   the default back-off of 10 s when it does not *)
C23_FailedReconcileRescheduled ==
    (last.op = "Reconcile" /\ last.get # "notFound" /\ last.failed # "none")
    => /\ last.next.how # "none"
       /\ IF ParseDuration(last.interval).ok
          THEN last.next = [how |-> "after", after |-> ParseDuration(last.interval).d]
          ELSE last.next = [how |-> "after", after |-> 10]

----------------------------------------------------------------------------
(* C26: the calls of the pool are linearizable.  A Get returns an entry the
   key held at some instant of the call; when no write of the key ran during
   the Get and the write that returned last ran alone, that is the entry of
   this write (absent after a Delete or before any Set).  The map changes at
   a key only when a Set or Delete of this key takes effect, and a Delete of
   an absent key changes nothing *)
GetReturned == last.op = "PoolReturn" /\ last.call.op = "get"

C26_Get ==
    GetReturned =>
        /\ last.call.ret \in last.call.held
        /\ (last.call.quiet /\ last.settled.alone) => last.call.ret = last.settled.value

C26_Step ==
    /\ \A k \in PoolKeys :
          PoolGet(AlertsPool', k) # PoolGet(AlertsPool, k)
          => \E c \in Callers : /\ poolCalls[c].pc = "mutating"
                                /\ poolCalls'[c].pc = "done"
                                /\ poolCalls[c].key = k
    /\ \A c \in Callers :
          ( /\ poolCalls[c].pc = "mutating"
            /\ poolCalls'[c].pc = "done"
            /\ poolCalls[c].op = "delete"
            /\ ~PoolGet(AlertsPool, poolCalls[c].key).exists )
          => AlertsPool' = AlertsPool

C26_PoolLinearizable == [](C26_Get) /\ [][C26_Step]_vars

(* a Get returns during which a write of its key took effect, no write of
   the key having returned since the key was last absent *)
C26_Witness ==
    /\ GetReturned
    /\ ~last.call.quiet
    /\ Cardinality(last.call.held) > 1
    /\ last.settled = Settled(Absent, TRUE)

----------------------------------------------------------------------------
(* C36: after an evaluation that returns no error and wrote a State
   condition, the condition names the state the rule has in RulesPool:
   AlertFiring for Firing, and the state's own name otherwise *)
ConditionOf(state) == IF state = ruleFiringState THEN "AlertFiring" ELSE state

C36_ConditionNamesState ==
    (Evaluated /\ last.err = "nil" /\ last.reached)
    => last.cond = ConditionOf(StateOf(KeyOf(last.id)))

----------------------------------------------------------------------------
(* C35: after every completed evaluation the rule it evaluated, when stored
   Firing, has an Alert under its key, also when the evaluation returned the
   error of the AlertFiring event *)
C35_FiringHasAlert ==
    last.op = "Sync" =>
        (StateOf(KeyOf(last.id)) = ruleFiringState => HasAlert(KeyOf(last.id)))

(* an evaluation took the rule to Firing, inserted its Alert and failed to
   create the event *)
C35_Witness ==
    /\ last.op = "Sync"
    /\ last.err = "KubeEventCreationError"
    /\ last.pre # ruleFiringState
    /\ ~last.preAlert
    /\ StateOf(KeyOf(last.id)) = ruleFiringState
    /\ HasAlert(KeyOf(last.id))
----------------------------------------------------------------------------
(* C32: a SearchRule with a Rule or an Alert in the pools is in the store
   and carries the finalizer; a reconcile whose r.Update of the finalizer
   fails evaluates nothing; and the store removes a record that has pool
   entries only in the reconciler's delete path *)
PoolEntryOf(id) == HasRule(KeyOf(id)) \/ HasAlert(KeyOf(id))

C32_State ==
    /\ \A id \in SRs : PoolEntryOf(id) => (srStore[id].exists /\ srStore[id].Finalizer)
    /\ last.op = "UpdateError" => (~last.http /\ ~last.reached)

C32_Step ==
    /\ last'.op = "UpdateError" => (RulesPool' = RulesPool /\ AlertsPool' = AlertsPool)
    /\ \A id \in SRs :
          (srStore[id].exists /\ PoolEntryOf(id) /\ ~srStore'[id].exists)
          => (last'.op = "Deleted" /\ last'.id = id)

C32_FinalizerBeforeEntries == [](C32_State) /\ [][C32_Step]_vars

(* the store removes, in the delete path, a record that had a Rule *)
C32_Witness ==
    /\ last.op = "Deleted"
    /\ last.pre # "absent"
    /\ \A id \in SRs : ~srStore[id].exists

----------------------------------------------------------------------------
(* C33: an evaluation that finds the rule's snapshot different from the
   record replaces the snapshot and nothing else before the state machine
   runs: the step it takes is the step from the state, the firingTime and
   the resolvingTime the rule had, not from a new rule *)
Refreshed(id) ==
    /\ last'.op = "Sync" /\ last'.reached /\ last'.id = id
    /\ HasRule(KeyOf(id))
    /\ RulesPool[KeyOf(id)].SearchRule # Resource(id, srStore[id])

Reset(rule) ==
    /\ rule.State = ruleNormalState
    /\ rule.FiringTime = ZeroTime
    /\ rule.ResolvingTime = ZeroTime

StepFrom(pre, post, firing, t) ==
    IF firing THEN
        /\ post.ResolvingTime = pre.ResolvingTime
        /\ IF pre.State \in {rulePendingFiringState, ruleFiringState}
           THEN /\ post.FiringTime = pre.FiringTime
                /\ post.State \in {pre.State, ruleFiringState}
           ELSE /\ post.FiringTime = t
                /\ post.State \in {rulePendingFiringState, ruleFiringState}
    ELSE IF pre.State = ruleNormalState THEN
        /\ post.State = ruleNormalState
        /\ post.FiringTime = pre.FiringTime
        /\ post.ResolvingTime = pre.ResolvingTime
    ELSE
        \/ Reset(post)
        \/ /\ post.State = rulePendingResolvedState
           /\ post.FiringTime = pre.FiringTime
           /\ post.ResolvingTime = IF pre.State = rulePendingResolvedState
                                   THEN pre.ResolvingTime ELSE t

C33_Step ==
    \A id \in SRs :
        Refreshed(id) =>
            /\ RulesPool'[KeyOf(id)].SearchRule = Resource(id, srStore[id])
            /\ StepFrom(RulesPool[KeyOf(id)], RulesPool'[KeyOf(id)], last'.firing, now)

C33_SnapshotRefreshKeepsState == [][C33_Step]_vars

(* a rule that went Firing under a shorter window has been evaluated with
   the snapshot of the record's new window of 1s, which it has not yet
   filled, and is still Firing since the same instant *)
C33_Witness ==
    /\ Evaluated
    /\ last.pre = ruleFiringState
    /\ last.firing
    /\ StateOf(KeyOf(last.id)) = ruleFiringState
    /\ RulesPool[KeyOf(last.id)].FiringTime + 1 = last.t
    /\ now = last.t
    /\ RulesPool[KeyOf(last.id)].SearchRule.Spec.For = "1s"

----------------------------------------------------------------------------
(* C31: the step of an evaluation that creates the AlertFiring event of a
   rule finds the Alert of the rule already in AlertsPool and the rule
   already stored as Firing, and both are there when the event exists *)
EventCreated == last'.op = "Sync" /\ last'.event /\ last' # last

C31_Step ==
    EventCreated =>
        /\ HasAlert(KeyOf(last'.id))
        /\ StateOf(KeyOf(last'.id)) = ruleFiringState

C31_State ==
    (last.op = "Sync" /\ last.event) =>
        /\ HasAlert(KeyOf(last.id))
        /\ StateOf(KeyOf(last.id)) = ruleFiringState

C31_AlertBeforeEvent == [](C31_State) /\ [][C31_Step]_vars

(* the event of a rule that had no Alert before this evaluation has been
   created *)
C31_Witness ==
    /\ last.op = "Sync"
    /\ last.event
    /\ ~last.preAlert
    /\ last.pre # ruleFiringState

----------------------------------------------------------------------------
(* C34: a conditions list that starts without two conditions of one type
   never holds two; UpdateCondition with a type the list holds overwrites
   the status, reason, message and lastTransitionTime of that entry where it
   is, with a new type it appends the condition, and it changes no other
   entry *)
NoDuplicateTypes(conds) ==
    \A i, j \in 1..Len(conds) : conds[i].Type = conds[j].Type => i = j

Overwritten(old, new, c, t) ==
    /\ new.Type = old.Type
    /\ new.Status = c.Status
    /\ new.Reason = c.Reason
    /\ new.Message = c.Message
    /\ new.LastTransitionTime = t

C34_Step ==
    last'.op = "UpdateCondition" =>
        LET c == last'.cond IN
        IF \E i \in 1..Len(conditions) : conditions[i].Type = c.Type
        THEN /\ Len(conditions') = Len(conditions)
             /\ \A i \in 1..Len(conditions) :
                   IF conditions[i].Type = c.Type
                   THEN Overwritten(conditions[i], conditions'[i], c, now)
                   ELSE conditions'[i] = conditions[i]
        ELSE /\ Len(conditions') = Len(conditions) + 1
             /\ conditions'[Len(conditions')] = c
             /\ \A i \in 1..Len(conditions) : conditions'[i] = conditions[i]

C34_OneConditionPerType == [](NoDuplicateTypes(conditions)) /\ [][C34_Step]_vars

(* the first of three conditions has been overwritten, later than the others
   were written *)
C34_Witness ==
    /\ last.op = "UpdateCondition"
    /\ Len(conditions) = 3
    /\ last.cond.Type = conditions[1].Type
    /\ conditions[1].Reason = last.cond.Reason
    /\ conditions[1].LastTransitionTime = now
    /\ conditions[1].LastTransitionTime > last.cond.LastTransitionTime
    /\ conditions[2].LastTransitionTime < now

----------------------------------------------------------------------------
(* C37: after the same observations at the same instants under one `for`
   window, the rule of CheckRule and the rule of Sync are in corresponding
   states (healthy/Normal, pending_firing/PendingFiring, firing/Firing,
   pending_resolved/PendingResolving) with the same firingTime and the same
   resolvingTime *)
SyncNameOf(state) ==
    CASE state = ruleHealthyState          -> ruleNormalState
      [] state = checkPendingFiringState   -> rulePendingFiringState
      [] state = checkFiringState          -> ruleFiringState
      [] state = checkPendingResolvedState -> rulePendingResolvedState

TwinKey == CheckRuleKey(TwinRule.Namespace, TwinRule.Name)

C37_SameRuleState ==
    /\ HasRule(KeyOf(TwinRule)) <=> TwinKey \in DOMAIN SearchRulePool
    /\ HasRule(KeyOf(TwinRule)) =>
          /\ SyncNameOf(SearchRulePool[TwinKey].state) = RulesPool[KeyOf(TwinRule)].State
          /\ SearchRulePool[TwinKey].firingTime = RulesPool[KeyOf(TwinRule)].FiringTime
          /\ SearchRulePool[TwinKey].resolvingTime = RulesPool[KeyOf(TwinRule)].ResolvingTime

(* both rules are Firing after a flap that left its resolvingTime behind,
   and the last observation found them Firing *)
C37_Witness ==
    /\ last.op = "Twin"
    /\ last.pre = ruleFiringState
    /\ last.firing
    /\ TwinKey \in DOMAIN SearchRulePool
    /\ SearchRulePool[TwinKey].state = checkFiringState
    /\ SearchRulePool[TwinKey].resolvingTime # ZeroTime
    /\ SearchRulePool[TwinKey].firingTime > SearchRulePool[TwinKey].resolvingTime

----------------------------------------------------------------------------
(* C38: a reconcile of the RulerAction controller for a key under which no
   RulerAction is read returns without running the dispatcher and without a
   status update on the empty record *)
C38_MissingActionReturns ==
    (last.op = "Reconcile" /\ last.kind = "RulerAction" /\ last.get = "notFound")
    => /\ ~last.synced
       /\ ~last.statusUpdate
       /\ last.err = "nil"

====
